---- MODULE Spec2Model ----
(***************************************************************************)
(* Usage reconciliation and quota enforcement of the Valhalla reseller     *)
(* bot: the background poll loop (scripts/usage_sync.py), the read-time    *)
(* subscription gate (app.py, unified_links) and the ledger-changing admin *)
(* operations of the bot (bot.py), over one MySQL ledger.                  *)
(*                                                                         *)
(* The ledger tables are functions from the keys of the rows that exist to *)
(* records of the columns the code reads or writes.  A remote panel is a   *)
(* traffic counter per remote account; every remote call may fail.         *)
(***************************************************************************)
EXTENDS Integers, Sequences, FiniteSets, TLC

\* ---------------------------------------------------------------- bounds
MaxRemote == 1      \* largest cumulative traffic one remote account reports
MaxTime == 2        \* the clock runs 1..MaxTime
MaxOps == 1         \* admin (bot) operations and panel-side resets in one behaviour
UserLimit == 2      \* the non-zero plan_limit_bytes an admin gives a user
AgentLimit == 1     \* the non-zero plan_limit_bytes an admin gives an agent

\* ------------------------------------------------------ program constants
\* SQL NULL of the DATETIME column expire_at (truth value false in Python).
NULL == 0
\* Python's None as the code of a remote call that failed (falsy, like 0).
None == 0
\* The code of a remote call that succeeded.
HTTP_OK == 200
\* LEAST(used_bytes + delta, 18446744073709551615), with the width scaled down.
CounterMax == 255
\* used_bytes BIGINT NOT NULL: the largest value of the signed column, at the
\* same scale.
ColumnMax == 127

\* -------------------------------------------------------------- topology
OWNER == 1
UserNames == {"u1", "u2"}
Panels == {"p1", "p2"}
LinkIds == {1, 2, 3}

\* panels.panel_type
PanelType(p) == IF p = "p2" THEN "sanaei" ELSE "marzneshin"

\* The immutable columns of local_user_panel_links; remote_username is the
\* comma-joined list of remote identities, kept as the sequence of its parts.
LinkDef(l) ==
    CASE l = 1 -> [owner_id |-> OWNER, local_username |-> "u1", panel_id |-> "p1",
                   remote_username |-> <<"u1">>]
      [] l = 2 -> [owner_id |-> OWNER, local_username |-> "u1", panel_id |-> "p2",
                   remote_username |-> <<"x", "y">>]
      [] l = 3 -> [owner_id |-> OWNER, local_username |-> "u2", panel_id |-> "p1",
                   remote_username |-> <<"r2">>]

\* A remote account: <<panel, remote identity>>.
TrafficAccounts == {<<"p1", "u1">>, <<"p2", "x">>, <<"p2", "y">>, <<"p1", "r2">>}
Accounts == TrafficAccounts \cup (Panels \X UserNames)
\* The accounts that carry traffic in the behaviours explored: both links of u1,
\* link 2 through each of its two identities.
BusyAccounts == {<<"p1", "u1">>, <<"p2", "x">>, <<"p2", "y">>}

\* ----------------------------------------------------------------- state
VARIABLES
    local_users,   \* local_users rows: username -> columns
    agents,        \* agents rows: telegram_user_id -> columns
    links,         \* local_user_panel_links rows: id -> last_used_traffic
    remote_used,   \* the panels: account -> cumulative used_traffic
    now,           \* the clock (UTC)
    pc,            \* usage_sync.loop: "sleep" | "links" | "agents"
    rows,          \* loop: the rows of fetch_all_links still to process
    seen_owners,   \* loop: owners touched in this cycle
    ev,            \* what the last step did: operation, remote calls, response
    ops,           \* admin operations and panel-side resets so far
    streak_used,   \* history: used_bytes of each user when its current streak of
                   \*   non-decreasing polls began
    streak_last,   \* history: last_used_traffic of each link at that moment
    pushed_since,  \* history: the users that went OK -> PUSHED while over quota
                   \*   and have been over quota ever since
    agent_pushed_since, \* history: the same for agents (over quota or expired)
    bot_txn,       \* bot.py: the transaction of reset_used / delete_local_user
                   \*   that has read the user's row and not yet written
    inflight,      \* the user-level disables decided on a flag read as 0 and not
                   \*   yet carried out: by the loop, by each open read request
    attempts,      \* history: disable calls issued so far, per remote account
    cycle,         \* history of the current poll cycle: the users whose poll
                   \*   took them over their limit and flipped their flag, the
                   \*   disable calls of the link polls, those of the agent pass,
                   \*   the owners of the links polled through to the user-level
                   \*   evaluation, the agent-level evaluations per owner, the
                   \*   users found over quota with the flag at 0 by a poll whose
                   \*   fetch succeeded, the users of the polls that neither
                   \*   failed nor regressed, the complete cycles ended so far
    aggr,          \* app.py link aggregation of one read request: the panel
                   \*   responses, the disabled-config filters, the completion
                   \*   order of the tasks, and the response built from them
    canon,         \* canonicalize_name: a name and its canonical forms
    flag_moved     \* history: for the loop and for each open read request,
                   \*   whether disabled_pushed of the user has changed since
                   \*   the flag was read for the disable now under way

\* no aggregation under way, no name being canonicalized
NoAggr == [stage |-> "none"]

NoCanon == [stage |-> "none"]

vars == <<local_users, agents, links, remote_used, now, pc, rows, seen_owners,
          ev, ops, streak_used, streak_last, pushed_since,
          agent_pushed_since, bot_txn, inflight, attempts, cycle, aggr, canon,
          flag_moved>>

\* ------------------------------------------------------------- utilities
Min(a, b) == IF a <= b THEN a ELSE b
Max(a, b) == IF a >= b THEN a ELSE b

RECURSIVE SumSeq(_, _)
SumSeq(f, s) == IF s = <<>> THEN 0 ELSE f[Head(s)] + SumSeq(f, Tail(s))

RECURSIVE SetToSeq(_)
\* ORDER BY id ASC
SetToSeq(S) ==
    IF S = {} THEN <<>>
    ELSE LET m == CHOOSE x \in S : \A y \in S : x <= y
         IN <<m>> \o SetToSeq(S \ {m})

Range(s) == {s[i] : i \in 1..Len(s)}

NoCalls == [a \in Accounts |-> 0]

\* One step's record: the operation, the remote enable/disable calls it issued
\* (per account), how they ended, the HTTP response of a read, and the owners
\* whose agent-level transitions the step evaluated, one entry per evaluation,
\* and the lines the step wrote to the log of usage_sync.
Event(op) ==
    [op |-> op, user |-> "", link |-> 0, used |-> -1, last |-> 0, html |-> FALSE,
     body |-> "", aggregated |-> FALSE, owners |-> <<>>,
     disable |-> NoCalls, enable |-> NoCalls, outcome |-> "none", log |-> {}]

\* The database the handlers run against, with the remote calls issued so far
\* in the step: every handler below maps one such record to the next.
\* fail: the accounts whose enable/disable calls fail during the step.
\* log: the lines usage_sync logs about its remote calls: the level, the call
\* and the code the call returned.
World(failed) ==
    [lu |-> local_users, ag |-> agents, ln |-> links,
     dis |-> NoCalls, en |-> NoCalls, fail |-> failed, log |-> {}]

\* remote_username.split(",") if panel_type == "sanaei" else [remote_username]
\* (a link of another panel type carries one identity).
Remotes(panel_type, remote_username) ==
    IF panel_type = "sanaei" THEN remote_username ELSE <<remote_username[1]>>

Count(s, x) == Cardinality({i \in 1..Len(s) : s[i] = x})

\* One api.disable_remote_user / api.enable_remote_user call per identity.
CallAll(calls, panel, names) ==
    [a \in Accounts |-> calls[a] + (IF a[1] = panel THEN Count(names, a[2]) ELSE 0)]

\* ------------------------------------- scripts/usage_sync.py: the ledger
add_usage(w, owner_id, local_username, delta) ==
    IF delta <= 0 THEN w
    ELSE [w EXCEPT
            !.lu = [u \in DOMAIN w.lu |->
                      IF u = local_username /\ owner_id = OWNER
                      THEN [w.lu[u] EXCEPT !.used_bytes = Min(@ + delta, CounterMax)]
                      ELSE w.lu[u]],
            !.ag = [o \in DOMAIN w.ag |->
                      IF o = owner_id
                      THEN [w.ag[o] EXCEPT !.total_used_bytes = Min(@ + delta, CounterMax)]
                      ELSE w.ag[o]]]

\* A faulty update_last that leaves the stored baseline as it was.
update_last_stale(w, link_id, new_used) == w

update_last(w, link_id, new_used) ==
    [w EXCEPT !.ln = [l \in DOMAIN w.ln |->
                        IF l = link_id THEN new_used ELSE w.ln[l]]]

list_links_of_local_user(w, owner_id, local_username) ==
    SetToSeq({l \in DOMAIN w.ln : LinkDef(l).owner_id = owner_id
                                  /\ LinkDef(l).local_username = local_username})

mark_user_disabled(w, owner_id, local_username) ==
    [w EXCEPT !.lu = [u \in DOMAIN w.lu |->
                        IF u = local_username /\ owner_id = OWNER
                        THEN [w.lu[u] EXCEPT !.disabled_pushed = 1]
                        ELSE w.lu[u]]]

mark_user_enabled(w, owner_id, local_username) ==
    [w EXCEPT !.lu = [u \in DOMAIN w.lu |->
                        IF u = local_username /\ owner_id = OWNER
                        THEN [w.lu[u] EXCEPT !.disabled_pushed = 0]
                        ELSE w.lu[u]]]

disable_remote(w, panel, remote_username) ==
    [w EXCEPT !.dis = CallAll(@, panel, Remotes(PanelType(panel), remote_username))]

enable_remote(w, panel, remote_username) ==
    [w EXCEPT !.en = CallAll(@, panel, Remotes(PanelType(panel), remote_username))]

\* The code disable_remote / enable_remote returns:
\* (200 if all_ok else None), all_ok being false when the call of any identity
\* failed.
remote_code(w, panel, remote_username) ==
    IF \E n \in Range(Remotes(PanelType(panel), remote_username)) :
          <<panel, n>> \in w.fail
    THEN None ELSE HTTP_OK

\* if code and code != 200: log.warning(...) else: log.info(...)
log_level(code) == IF code # None /\ code # HTTP_OK THEN "warning" ELSE "info"

log_line(call, code) == [level |-> log_level(code), call |-> call, code |-> code]

\* The line logged after a remote call.
log_call(w, call, panel, remote_username) ==
    [w EXCEPT !.log = @ \cup {log_line(call, remote_code(w, panel, remote_username))}]

RECURSIVE DisableLinks(_, _)
\* for l in links: disable_remote(...), then the log line
DisableLinks(w, ls) ==
    IF ls = <<>> THEN w
    ELSE DisableLinks(log_call(disable_remote(w, LinkDef(Head(ls)).panel_id,
                                              LinkDef(Head(ls)).remote_username),
                               "disable", LinkDef(Head(ls)).panel_id,
                               LinkDef(Head(ls)).remote_username),
                      Tail(ls))

RECURSIVE EnableLinks(_, _)
\* for l in links: enable_remote(...), then the log line
EnableLinks(w, ls) ==
    IF ls = <<>> THEN w
    ELSE EnableLinks(log_call(enable_remote(w, LinkDef(Head(ls)).panel_id,
                                            LinkDef(Head(ls)).remote_username),
                              "enable", LinkDef(Head(ls)).panel_id,
                              LinkDef(Head(ls)).remote_username),
                     Tail(ls))

\* A faulty comparison that takes a limit of 0 for a limit like any other.
UserOverLimit_zero(lu) == lu.used_bytes >= lu.plan_limit_bytes

\* A faulty comparison that lets a user reach its limit exactly.
UserOverLimit_strict(lu) == lu.plan_limit_bytes > 0 /\ lu.used_bytes > lu.plan_limit_bytes

\* limit > 0 and used >= limit
UserOverLimit(lu) == lu.plan_limit_bytes > 0 /\ lu.used_bytes >= lu.plan_limit_bytes

\* A faulty variant that records the disable only when every call succeeded.
try_disable_if_user_exceeded_strict(w, owner_id, local_username) ==
    IF local_username \notin DOMAIN w.lu THEN w
    ELSE IF UserOverLimit(w.lu[local_username])
            /\ w.lu[local_username].disabled_pushed = 0
         THEN LET w1 == DisableLinks(w, list_links_of_local_user(w, owner_id,
                                                                 local_username))
              IN IF \E a \in w.fail : w1.dis[a] > 0
                 THEN w1
                 ELSE mark_user_disabled(w1, owner_id, local_username)
         ELSE w

try_disable_if_user_exceeded(w, owner_id, local_username) ==
    IF local_username \notin DOMAIN w.lu THEN w
    ELSE IF UserOverLimit(w.lu[local_username])
            /\ w.lu[local_username].disabled_pushed = 0
         THEN mark_user_disabled(
                  DisableLinks(w, list_links_of_local_user(w, owner_id, local_username)),
                  owner_id, local_username)
         ELSE w

\* A faulty variant that re-enables a user sitting exactly at its limit.
try_enable_if_user_ok_lenient(w, owner_id, local_username) ==
    IF local_username \notin DOMAIN w.lu THEN w
    ELSE IF w.lu[local_username].disabled_pushed = 1
            /\ (w.lu[local_username].plan_limit_bytes = 0
                \/ w.lu[local_username].used_bytes
                     <= w.lu[local_username].plan_limit_bytes)
         THEN mark_user_enabled(
                  EnableLinks(w, list_links_of_local_user(w, owner_id, local_username)),
                  owner_id, local_username)
         ELSE w

try_enable_if_user_ok(w, owner_id, local_username) ==
    IF local_username \notin DOMAIN w.lu THEN w
    ELSE IF w.lu[local_username].disabled_pushed = 1
            /\ (w.lu[local_username].plan_limit_bytes = 0
                \/ w.lu[local_username].used_bytes
                     < w.lu[local_username].plan_limit_bytes)
         THEN mark_user_enabled(
                  EnableLinks(w, list_links_of_local_user(w, owner_id, local_username)),
                  owner_id, local_username)
         ELSE w

\* ------------------------- scripts/usage_sync.py: agent quota and expiry
RECURSIVE AnyOrder(_)
\* The rows of a SELECT without ORDER BY, in some order.
AnyOrder(S) ==
    IF S = {} THEN <<>>
    ELSE LET m == CHOOSE x \in S : TRUE IN <<m>> \o AnyOrder(S \ {m})

\* agent_panels JOIN panels for the agent
list_agent_assigned_panels(owner_id) == IF owner_id = OWNER THEN {"p1"} ELSE {}

list_all_local_usernames(w, owner_id) ==
    IF owner_id = OWNER THEN DOMAIN w.lu ELSE {}

total_used_by_owner(w, owner_id) ==
    IF owner_id \in DOMAIN w.ag THEN w.ag[owner_id].total_used_bytes ELSE 0

mark_agent_disabled(w, owner_id) ==
    [w EXCEPT !.ag = [o \in DOMAIN w.ag |->
                        IF o = owner_id THEN [w.ag[o] EXCEPT !.disabled_pushed = 1]
                        ELSE w.ag[o]]]

mark_agent_enabled(w, owner_id) ==
    [w EXCEPT !.ag = [o \in DOMAIN w.ag |->
                        IF o = owner_id THEN [w.ag[o] EXCEPT !.disabled_pushed = 0]
                        ELSE w.ag[o]]]

mark_all_users_disabled(w, owner_id) ==
    [w EXCEPT !.lu = [u \in DOMAIN w.lu |->
                        IF owner_id = OWNER THEN [w.lu[u] EXCEPT !.disabled_pushed = 1]
                        ELSE w.lu[u]]]

mark_all_users_enabled(w, owner_id) ==
    [w EXCEPT !.lu = [u \in DOMAIN w.lu |->
                        IF owner_id = OWNER THEN [w.lu[u] EXCEPT !.disabled_pushed = 0]
                        ELSE w.lu[u]]]

RECURSIVE DisableOnPanels(_, _, _)
DisableOnPanels(w, ps, username) ==
    IF ps = <<>> THEN w
    ELSE DisableOnPanels(log_call(disable_remote(w, Head(ps), <<username>>),
                                  "disable", Head(ps), <<username>>),
                         Tail(ps), username)

RECURSIVE EnableOnPanels(_, _, _)
EnableOnPanels(w, ps, username) ==
    IF ps = <<>> THEN w
    ELSE EnableOnPanels(log_call(enable_remote(w, Head(ps), <<username>>),
                                 "enable", Head(ps), <<username>>),
                        Tail(ps), username)

\* A faulty variant that tries the assigned panels only for a user that has no
\* link of its own.
disable_user_on_assigned_panels_unlinked(w, owner_id, username) ==
    IF list_links_of_local_user(w, owner_id, username) # <<>> THEN w
    ELSE DisableOnPanels(w, AnyOrder(list_agent_assigned_panels(owner_id)), username)

disable_user_on_assigned_panels(w, owner_id, username) ==
    DisableOnPanels(w, AnyOrder(list_agent_assigned_panels(owner_id)), username)

enable_user_on_assigned_panels(w, owner_id, username) ==
    EnableOnPanels(w, AnyOrder(list_agent_assigned_panels(owner_id)), username)

RECURSIVE DisableUsers(_, _, _)
\* for uname in usernames: the linked accounts, then the assigned panels
DisableUsers(w, owner_id, unames) ==
    IF unames = <<>> THEN w
    ELSE DisableUsers(
             disable_user_on_assigned_panels(
                 DisableLinks(w, list_links_of_local_user(w, owner_id, Head(unames))),
                 owner_id, Head(unames)),
             owner_id, Tail(unames))

RECURSIVE EnableUsers(_, _, _)
EnableUsers(w, owner_id, unames) ==
    IF unames = <<>> THEN w
    ELSE EnableUsers(
             enable_user_on_assigned_panels(
                 EnableLinks(w, list_links_of_local_user(w, owner_id, Head(unames))),
                 owner_id, Head(unames)),
             owner_id, Tail(unames))

\* A faulty test that lets only an agent with a quota expire.
AgentExpired_limited(ag, t) ==
    ag.plan_limit_bytes > 0 /\ ag.expire_at # NULL /\ ag.expire_at <= t

\* expired = (expire_at <= now_utc) if expire_at else False
AgentExpired(ag, t) == ag.expire_at # NULL /\ ag.expire_at <= t

\* A faulty comparison that lets an agent reach its limit exactly.
AgentOverLimit_strict(ag) ==
    ag.plan_limit_bytes > 0 /\ ag.total_used_bytes > ag.plan_limit_bytes

\* over_limit = (tot >= limit_b) if limit_b > 0 else False
AgentOverLimit(ag) ==
    ag.plan_limit_bytes > 0 /\ ag.total_used_bytes >= ag.plan_limit_bytes

try_disable_agent_if_exceeded(w, owner_id, t) ==
    IF owner_id \notin DOMAIN w.ag THEN w
    ELSE IF w.ag[owner_id].active = 0 THEN w
    ELSE IF (AgentExpired(w.ag[owner_id], t) \/ AgentOverLimit(w.ag[owner_id]))
            /\ w.ag[owner_id].disabled_pushed = 0
         THEN mark_agent_disabled(
                  mark_all_users_disabled(
                      DisableUsers(w, owner_id,
                                   AnyOrder(list_all_local_usernames(w, owner_id))),
                      owner_id),
                  owner_id)
         ELSE w

try_enable_agent_if_ok(w, owner_id, t) ==
    IF owner_id \notin DOMAIN w.ag THEN w
    ELSE IF w.ag[owner_id].active = 0 THEN w
    ELSE IF w.ag[owner_id].disabled_pushed = 0 THEN w
    ELSE IF ~AgentExpired(w.ag[owner_id], t) /\ ~AgentOverLimit(w.ag[owner_id])
         THEN mark_agent_enabled(
                  mark_all_users_enabled(
                      EnableUsers(w, owner_id,
                                  AnyOrder(list_all_local_usernames(w, owner_id))),
                      owner_id),
                  owner_id)
         ELSE w

sync_agent_now(w, owner_id, t) ==
    try_enable_agent_if_ok(try_disable_agent_if_exceeded(w, owner_id, t), owner_id, t)

\* --------------------------------- scripts/usage_sync.py: the poll loop
LinkAccounts(l) ==
    {<<LinkDef(l).panel_id, n>> :
        n \in Range(Remotes(PanelType(LinkDef(l).panel_id), LinkDef(l).remote_username))}

\* fetch_all_links: SELECT ... ORDER BY lup.id ASC
fetch_all_links ==
    LET ids == SetToSeq(DOMAIN links)
    IN [i \in 1..Len(ids) |-> [link_id |-> ids[i], last_used_traffic |-> links[ids[i]]]]

\* A faulty fetch that sums the identities it could read and fails only when
\* none could be.
fetch_used_traffic_partial(l, fetch_failed) ==
    IF LinkAccounts(l) \subseteq fetch_failed THEN -1
    ELSE SumSeq([a \in TrafficAccounts |->
                    IF a \in fetch_failed THEN 0 ELSE remote_used[a]],
                [i \in 1..Len(Remotes(PanelType(LinkDef(l).panel_id),
                                      LinkDef(l).remote_username)) |->
                    <<LinkDef(l).panel_id,
                      Remotes(PanelType(LinkDef(l).panel_id),
                              LinkDef(l).remote_username)[i]>>])

\* The used_traffic of the link's account(s), or -1 (None) when a get_user
\* fails; the identities of a multi-identity link are summed.
fetch_used_traffic(l, fetch_failed) ==
    IF LinkAccounts(l) \cap fetch_failed # {} THEN -1
    ELSE SumSeq(remote_used,
                [i \in 1..Len(Remotes(PanelType(LinkDef(l).panel_id),
                                      LinkDef(l).remote_username)) |->
                    <<LinkDef(l).panel_id,
                      Remotes(PanelType(LinkDef(l).panel_id),
                              LinkDef(l).remote_username)[i]>>])

\* A faulty loop body that takes a counter below the baseline for a restarted
\* counter and credits the whole reported value.
process_row_restart(w, row, used) ==
    LET d == LinkDef(row.link_id)
        last == row.last_used_traffic
    IN IF used = -1 THEN [w |-> w, seen |-> FALSE]
       ELSE LET delta == IF used < last THEN used ELSE used - last
                w1 == IF delta > 0 \/ used < last
                      THEN update_last(
                               add_usage(w, d.owner_id, d.local_username, delta),
                               row.link_id, used)
                      ELSE w
                w2 == try_disable_if_user_exceeded(w1, d.owner_id, d.local_username)
                w3 == try_enable_if_user_ok(w2, d.owner_id, d.local_username)
            IN [w |-> w3, seen |-> TRUE]

\* A faulty loop body that takes a failed fetch for a counter at zero.
process_row_failzero(w, row, used) ==
    LET d == LinkDef(row.link_id)
        last == row.last_used_traffic
    IN IF used < last
       THEN [w |-> update_last(w, row.link_id, Max(used, 0)), seen |-> FALSE]
       ELSE LET w1 == IF used - last > 0
                      THEN update_last(
                               add_usage(w, d.owner_id, d.local_username, used - last),
                               row.link_id, used)
                      ELSE w
                w2 == try_disable_if_user_exceeded(w1, d.owner_id, d.local_username)
                w3 == try_enable_if_user_ok(w2, d.owner_id, d.local_username)
            IN [w |-> w3, seen |-> TRUE]

\* The body of `for row in links`, from the fetched value on: the database
\* afterwards and whether the owner was added to seen_owners.
process_row(w, row, used) ==
    LET d == LinkDef(row.link_id)
        last == row.last_used_traffic
    IN IF used = -1 THEN [w |-> w, seen |-> FALSE]
       ELSE IF used < last
            THEN [w |-> update_last(w, row.link_id, used), seen |-> FALSE]
       ELSE LET w1 == IF used - last > 0
                      THEN update_last(
                               add_usage(w, d.owner_id, d.local_username, used - last),
                               row.link_id, used)
                      ELSE w
                w2 == try_disable_if_user_exceeded(w1, d.owner_id, d.local_username)
                w3 == try_enable_if_user_ok(w2, d.owner_id, d.local_username)
            IN [w |-> w3, seen |-> TRUE]

RECURSIVE SyncOwners(_, _, _)
\* for owner_id in seen_owners: try_disable_agent..., try_enable_agent...
SyncOwners(w, owners, t) ==
    IF owners = <<>> THEN w
    ELSE SyncOwners(sync_agent_now(w, Head(owners), t), Tail(owners), t)

Called(w) == {a \in Accounts : w.dis[a] > 0 \/ w.en[a] > 0}

Outcome(w) ==
    IF Called(w) = {} THEN "none"
    ELSE IF Called(w) \cap w.fail = {} THEN "ok"
    ELSE IF Called(w) \subseteq w.fail THEN "all_failed"
    ELSE "some_failed"

\* The step's database writes and its event record.
\* The quota and expiry predicates as the specification words them (section 4.4).
SpecOverQuota(row, used) == row.plan_limit_bytes > 0 /\ used >= row.plan_limit_bytes
SpecExpired(row, t) == row.expire_at # NULL /\ row.expire_at <= t

\* A streak of a user ends with a counter regression on one of its links, a
\* usage reset or its deletion; the next one starts from the values then stored.
StreakEnds(u) ==
    \/ ev'.op = "poll" /\ ev'.user = u /\ ev'.used >= 0 /\ ev'.used < ev'.last
    \/ ev'.op \in {"reset_used", "delete_user"} /\ ev'.user = u

Sum(f, g) == [a \in Accounts |-> f[a] + g[a]]

NoCycle ==
    [pushed |-> {}, poll |-> NoCalls, agents |-> NoCalls,
     touched |-> {}, evals |-> [o \in {OWNER} |-> 0], owed |-> {}, polled |-> {},
     settled |-> -1]

\* The cycles counted as settling cycles saturate at:
MaxSettle == 4

\* A cycle is complete when it has taken every user that has a link through
\* the user-level evaluation.
CompleteCycle ==
    {LinkDef(l).local_username : l \in DOMAIN links} \subseteq cycle.polled

\* The complete cycles that have ended so far, counted (up to MaxSettle) in the
\* behaviours that start the count at 0 and left at -1 in the others.
Settled ==
    IF cycle.settled >= 0 /\ CompleteCycle
    THEN Min(cycle.settled + 1, MaxSettle)
    ELSE cycle.settled

\* The agent-level evaluations so far, with those of one more step.
Tally(evals, owners) == [o \in DOMAIN evals |-> evals[o] + Count(owners, o)]

\* The step changes disabled_pushed of the user.
FlagChanged(u) ==
    /\ u \in DOMAIN local_users /\ u \in DOMAIN local_users'
    /\ local_users'[u].disabled_pushed # local_users[u].disabled_pushed

NotMoved == [loop |-> FALSE, req |-> [r \in {"r1", "r2"} |-> FALSE]]

History ==
    /\ streak_used' = [u \in UserNames |->
                         IF StreakEnds(u)
                         THEN (IF u \in DOMAIN local_users'
                               THEN local_users'[u].used_bytes ELSE 0)
                         ELSE streak_used[u]]
    /\ streak_last' = [l \in LinkIds |->
                         IF StreakEnds(LinkDef(l).local_username)
                         THEN (IF l \in DOMAIN links' THEN links'[l] ELSE 0)
                         ELSE streak_last[l]]
    /\ pushed_since' =
           {u \in DOMAIN local_users' :
               /\ SpecOverQuota(local_users'[u], local_users'[u].used_bytes)
               /\ \/ u \in pushed_since
                  \/ (u \in DOMAIN local_users /\ local_users[u].disabled_pushed = 0
                      /\ local_users'[u].disabled_pushed = 1)}
    /\ agent_pushed_since' =
           {o \in DOMAIN agents' :
               /\ \/ SpecOverQuota(agents'[o], agents'[o].total_used_bytes)
                  \/ SpecExpired(agents'[o], now')
               /\ \/ o \in agent_pushed_since
                  \/ (o \in DOMAIN agents /\ agents[o].disabled_pushed = 0
                      /\ agents'[o].disabled_pushed = 1)}
    /\ cycle' =
           IF ev'.op = "fetch_all" THEN [NoCycle EXCEPT !.settled = cycle.settled]
           ELSE IF ev'.op \in {"poll", "disable"}
           THEN [pushed |-> cycle.pushed \cup
                              {u \in DOMAIN local_users \cap DOMAIN local_users' :
                                  /\ ev'.op = "poll" /\ ev'.user = u
                                  /\ ~SpecOverQuota(local_users[u], local_users[u].used_bytes)
                                  /\ SpecOverQuota(local_users'[u], local_users'[u].used_bytes)
                                  /\ local_users[u].disabled_pushed = 0
                                  /\ local_users'[u].disabled_pushed = 1},
                 poll |-> Sum(cycle.poll, ev'.disable),
                 agents |-> cycle.agents,
                 touched |-> cycle.touched \cup
                               (IF ev'.op = "poll" /\ ev'.used >= 0
                                   /\ ev'.used >= ev'.last
                                THEN {LinkDef(ev'.link).owner_id} ELSE {}),
                 evals |-> Tally(cycle.evals, ev'.owners),
                 owed |-> cycle.owed \cup
                            {u \in DOMAIN local_users :
                                /\ ev'.op = "poll" /\ ev'.user = u /\ ev'.used >= 0
                                /\ SpecOverQuota(local_users[u], local_users[u].used_bytes)
                                /\ local_users[u].disabled_pushed = 0},
                 polled |-> cycle.polled \cup
                              (IF ev'.op = "poll" /\ ev'.used >= 0
                                  /\ ev'.used >= ev'.last
                               THEN {ev'.user} ELSE {}),
                 settled |-> cycle.settled]
           ELSE IF ev'.op = "agents"
           THEN [cycle EXCEPT !.agents = Sum(@, ev'.disable),
                              !.evals = Tally(@, ev'.owners),
                              !.settled = Settled]
           ELSE cycle
    /\ flag_moved' =
           [loop |-> /\ inflight.loop /\ inflight'.loop
                     /\ \/ flag_moved.loop
                        \/ FlagChanged(LinkDef(Head(rows).link_id).local_username),
            req |-> [r \in DOMAIN inflight.req |->
                        /\ inflight.req[r] # "" /\ inflight'.req[r] # ""
                        /\ \/ flag_moved.req[r]
                           \/ FlagChanged(inflight.req[r])]]

\* The steps that run code of usage_sync, which logs its remote calls as
\* above; the web application keeps a log of its own.
EnforcerOps == {"poll", "disable", "agents", "set_agent_quota"}

Commit(w, e) ==
    /\ local_users' = w.lu
    /\ agents' = w.ag
    /\ links' = w.ln
    /\ ev' = [e EXCEPT !.disable = w.dis, !.enable = w.en, !.outcome = Outcome(w),
                       !.log = IF e.op \in EnforcerOps THEN w.log ELSE {}]

LoopStart ==
    /\ pc = "sleep"
    /\ rows' = fetch_all_links
    /\ seen_owners' = {}
    /\ pc' = IF DOMAIN links = {} THEN "agents" ELSE "links"
    /\ ev' = Event("fetch_all")
    /\ UNCHANGED <<local_users, agents, links, remote_used, now, ops>>
    /\ UNCHANGED <<bot_txn, inflight, attempts, aggr, canon>>
    /\ History

\* A faulty loop body: a failed fetch or a failed remote call ends the cycle.
LoopLink_abort ==
    /\ pc = "links"
    /\ rows # <<>>
    /\ \E fetch_failed \in SUBSET LinkAccounts(Head(rows).link_id) :
         LET row == Head(rows)
             used == fetch_used_traffic(row.link_id, fetch_failed)
         IN \E failed \in SUBSET Called(process_row(World({}), row, used).w) :
              LET r == process_row(World(failed), row, used)
                  stop == used = -1 \/ failed # {}
              IN /\ Commit(r.w,
                           [Event("poll") EXCEPT
                               !.link = row.link_id,
                               !.user = LinkDef(row.link_id).local_username,
                               !.used = used,
                               !.last = row.last_used_traffic])
                 /\ seen_owners' = IF stop THEN {}
                                   ELSE IF r.seen
                                   THEN seen_owners \cup {LinkDef(row.link_id).owner_id}
                                   ELSE seen_owners
                 /\ rows' = IF stop THEN <<>> ELSE Tail(rows)
                 /\ pc' = IF stop THEN "sleep"
                          ELSE IF Tail(rows) = <<>> THEN "agents" ELSE "links"
    /\ UNCHANGED <<remote_used, now, ops>>
    /\ UNCHANGED <<bot_txn, inflight, attempts, aggr, canon>>
    /\ History

\* A faulty loop body that checks the owner's agent quota after every link
\* instead of once at the end of the cycle.
LoopLink_eager ==
    /\ pc = "links"
    /\ rows # <<>>
    /\ \E fetch_failed \in SUBSET LinkAccounts(Head(rows).link_id) :
         LET row == Head(rows)
             o == LinkDef(row.link_id).owner_id
             used == fetch_used_traffic(row.link_id, fetch_failed)
             Run(failed) ==
                 LET r == process_row(World(failed), row, used)
                 IN [w |-> IF r.seen THEN sync_agent_now(r.w, o, now) ELSE r.w,
                     seen |-> r.seen]
         IN \E failed \in SUBSET Called(Run({}).w) :
              /\ Commit(Run(failed).w,
                        [Event("poll") EXCEPT
                            !.link = row.link_id,
                            !.user = LinkDef(row.link_id).local_username,
                            !.used = used,
                            !.last = row.last_used_traffic,
                            !.owners = IF Run(failed).seen THEN <<o>> ELSE <<>>])
              /\ seen_owners' = IF Run(failed).seen
                                THEN seen_owners \cup {o}
                                ELSE seen_owners
    /\ rows' = Tail(rows)
    /\ pc' = IF Tail(rows) = <<>> THEN "agents" ELSE "links"
    /\ UNCHANGED <<remote_used, now, ops>>
    /\ UNCHANGED <<bot_txn, inflight, attempts, aggr, canon>>
    /\ History

LoopLink ==
    /\ pc = "links"
    /\ rows # <<>>
    /\ \E fetch_failed \in SUBSET LinkAccounts(Head(rows).link_id) :
         LET row == Head(rows)
             used == fetch_used_traffic(row.link_id, fetch_failed)
         IN \E failed \in SUBSET Called(process_row(World({}), row, used).w) :
              LET r == process_row(World(failed), row, used)
              IN /\ Commit(r.w,
                           [Event("poll") EXCEPT
                               !.link = row.link_id,
                               !.user = LinkDef(row.link_id).local_username,
                               !.used = used,
                               !.last = row.last_used_traffic])
                 /\ seen_owners' = IF r.seen
                                   THEN seen_owners \cup {LinkDef(row.link_id).owner_id}
                                   ELSE seen_owners
    /\ rows' = Tail(rows)
    /\ pc' = IF Tail(rows) = <<>> THEN "agents" ELSE "links"
    /\ UNCHANGED <<remote_used, now, ops>>
    /\ UNCHANGED <<bot_txn, inflight, attempts, aggr, canon>>
    /\ History

LoopAgents ==
    /\ pc = "agents"
    /\ \E failed \in SUBSET Called(SyncOwners(World({}), SetToSeq(seen_owners), now)) :
         Commit(SyncOwners(World(failed), SetToSeq(seen_owners), now),
                [Event("agents") EXCEPT !.owners = SetToSeq(seen_owners)])
    /\ pc' = "sleep"
    /\ seen_owners' = {}
    /\ UNCHANGED <<remote_used, now, rows, ops>>
    /\ UNCHANGED <<bot_txn, inflight, attempts, aggr, canon>>
    /\ History

\* ------------------------------------------- app.py: the subscription gate
\* get_agent: ... WHERE telegram_user_id IN (ids) AND active=1
app_get_agent(w, owner_id) ==
    IF owner_id \in DOMAIN w.ag /\ w.ag[owner_id].active = 1 THEN {owner_id} ELSE {}

\* list_all_agent_links: every link row of the owner
list_all_agent_links(w, owner_id) ==
    SetToSeq({l \in DOMAIN w.ln : LinkDef(l).owner_id = owner_id})

list_mapped_links(w, owner_id, local_username) ==
    SetToSeq({l \in DOMAIN w.ln : LinkDef(l).owner_id = owner_id
                                  /\ LinkDef(l).local_username = local_username})

\* list_all_panels: the panels the owner registered itself (an agent works on
\* panels of its admin, assigned through agent_panels).
list_all_panels(w, owner_id) == IF owner_id \in DOMAIN w.ag THEN {} ELSE Panels

\* if ag: ... if expired or exceeded
AgentGate(w, owner_id, t) ==
    /\ app_get_agent(w, owner_id) # {}
    /\ \/ (w.ag[owner_id].expire_at # NULL /\ w.ag[owner_id].expire_at <= t)
       \/ (w.ag[owner_id].plan_limit_bytes > 0
           /\ w.ag[owner_id].total_used_bytes >= w.ag[owner_id].plan_limit_bytes)

\* A faulty user gate that trusts a disable already pushed and lets the read
\* through.
UserGate_unpushed(w, local_username) ==
    /\ w.lu[local_username].plan_limit_bytes > 0
    /\ w.lu[local_username].used_bytes >= w.lu[local_username].plan_limit_bytes
    /\ w.lu[local_username].disabled_pushed = 0

\* if limit > 0 and used >= limit
UserGate(w, local_username) ==
    /\ w.lu[local_username].plan_limit_bytes > 0
    /\ w.lu[local_username].used_bytes >= w.lu[local_username].plan_limit_bytes

\* A faulty agent-level block that records the disable only when every call
\* succeeded.
gate_agent_strict(w, owner_id, t) ==
    IF AgentGate(w, owner_id, t) /\ w.ag[owner_id].disabled_pushed = 0
    THEN LET w1 == DisableLinks(w, list_all_agent_links(w, owner_id))
         IN IF \E a \in w.fail : w1.dis[a] > 0
            THEN w1
            ELSE mark_agent_disabled(w1, owner_id)
    ELSE w

\* The agent-level block of unified_links.
gate_agent(w, owner_id, t) ==
    IF AgentGate(w, owner_id, t) /\ w.ag[owner_id].disabled_pushed = 0
    THEN mark_agent_disabled(DisableLinks(w, list_all_agent_links(w, owner_id)), owner_id)
    ELSE w

\* A faulty user-level block that pushes the disable on every gated read.
gate_user_always(w, owner_id, local_username) ==
    IF UserGate(w, local_username)
    THEN mark_user_disabled(
             IF list_mapped_links(w, owner_id, local_username) # <<>>
             THEN DisableLinks(w, list_mapped_links(w, owner_id, local_username))
             ELSE DisableOnPanels(w, AnyOrder(list_all_panels(w, owner_id)),
                                  local_username),
             owner_id, local_username)
    ELSE w

\* The user-level block of unified_links.
gate_user(w, owner_id, local_username) ==
    IF UserGate(w, local_username) /\ w.lu[local_username].disabled_pushed = 0
    THEN mark_user_disabled(
             IF list_mapped_links(w, owner_id, local_username) # <<>>
             THEN DisableLinks(w, list_mapped_links(w, owner_id, local_username))
             ELSE DisableOnPanels(w, AnyOrder(list_all_panels(w, owner_id)),
                                  local_username),
             owner_id, local_username)
    ELSE w

\* unified_links for an existing local user: the database afterwards, the
\* response body and whether collect_links ran.  agg is what the aggregation
\* yields: "links", "errors" (no link, some panel error) or "" (nothing).
unified_links(w0, owner_id, local_username, want_html, agg, t) ==
    LET w1 == gate_agent(w0, owner_id, t)
        agent_blocked == AgentGate(w0, owner_id, t)
    IN IF agent_blocked /\ ~want_html
       THEN [w |-> w1, body |-> "", aggregated |-> FALSE]
       ELSE LET w2 == gate_user(w1, owner_id, local_username)
                limit_reached == UserGate(w0, local_username)
            IN IF limit_reached /\ ~want_html
               THEN [w |-> w2, body |-> "limit reached", aggregated |-> FALSE]
               ELSE [w |-> w2,
                     body |-> IF want_html THEN "html"
                              ELSE IF ~agent_blocked /\ ~limit_reached THEN agg
                              ELSE "",
                     aggregated |-> ~agent_blocked /\ ~limit_reached]

SubRead ==
    \E u \in DOMAIN local_users, want_html \in BOOLEAN, agg \in {"links"} :
      /\ want_html => (AgentGate(World({}), OWNER, now) \/ UserGate(World({}), u))
      /\ \E failed \in SUBSET Called(unified_links(World({}), OWNER, u, want_html,
                                                   agg, now).w) :
           LET r == unified_links(World(failed), OWNER, u, want_html, agg, now)
           IN Commit(r.w,
                     [Event("read") EXCEPT !.user = u, !.html = want_html,
                                           !.body = r.body,
                                           !.aggregated = r.aggregated])
      /\ UNCHANGED <<remote_used, now, pc, rows, seen_owners, ops>>
      /\ UNCHANGED <<bot_txn, inflight, attempts, aggr, canon>>
      /\ History

\* ------------------------------------------------ bot.py: admin operations
UserAccounts(w, local_username) ==
    UNION {LinkAccounts(l) : l \in {k \in DOMAIN w.ln :
                                      LinkDef(k).local_username = local_username}}

update_limit(w, owner_id, username, new_limit_bytes) ==
    [w EXCEPT !.lu = [u \in DOMAIN w.lu |->
                        IF u = username /\ owner_id = OWNER
                        THEN [w.lu[u] EXCEPT !.plan_limit_bytes = new_limit_bytes]
                        ELSE w.lu[u]]]

\* A faulty decrement without the floor.
creditRemoval_unfloored(w, owner_real, amount) ==
    IF amount > 0
    THEN [w EXCEPT !.ag = [o \in DOMAIN w.ag |->
                             IF o = owner_real
                             THEN [w.ag[o] EXCEPT !.total_used_bytes = @ - amount]
                             ELSE w.ag[o]]]
    ELSE w

\* UPDATE agents SET total_used_bytes = GREATEST(total_used_bytes - %s, 0)
creditRemoval(w, owner_real, amount) ==
    IF amount > 0
    THEN [w EXCEPT !.ag = [o \in DOMAIN w.ag |->
                             IF o = owner_real
                             THEN [w.ag[o] EXCEPT !.total_used_bytes = Max(@ - amount, 0)]
                             ELSE w.ag[o]]]
    ELSE w

reset_used(w, owner_id, username) ==
    creditRemoval(
        [w EXCEPT !.lu = [u \in DOMAIN w.lu |->
                            IF u = username /\ owner_id = OWNER
                            THEN [w.lu[u] EXCEPT !.used_bytes = 0]
                            ELSE w.lu[u]]],
        owner_id,
        IF username \in DOMAIN w.lu THEN w.lu[username].used_bytes ELSE 0)

delete_local_user(w, owner_id, username) ==
    creditRemoval(
        [w EXCEPT !.ln = [l \in {k \in DOMAIN w.ln :
                                   ~(LinkDef(k).owner_id = owner_id
                                     /\ LinkDef(k).local_username = username)} |->
                            w.ln[l]],
                  !.lu = [u \in DOMAIN w.lu \ {username} |-> w.lu[u]]],
        owner_id,
        IF username \in DOMAIN w.lu THEN w.lu[username].used_bytes ELSE 0)

set_agent_quota(w, tg_id, limit_bytes, t) ==
    sync_agent_now(
        [w EXCEPT !.ag = [o \in DOMAIN w.ag |->
                            IF o = tg_id
                            THEN [w.ag[o] EXCEPT !.plan_limit_bytes = limit_bytes]
                            ELSE w.ag[o]]],
        tg_id, t)

renew_agent_days(w, tg_id, add_days, t) ==
    [w EXCEPT !.ag = [o \in DOMAIN w.ag |->
                        IF o = tg_id
                        THEN [w.ag[o] EXCEPT !.expire_at =
                                 IF @ # NULL THEN @ + add_days ELSE t + add_days]
                        ELSE w.ag[o]]]

set_agent_active(w, tg_id, active) ==
    [w EXCEPT !.ag = [o \in DOMAIN w.ag |->
                        IF o = tg_id THEN [w.ag[o] EXCEPT !.active = active]
                        ELSE w.ag[o]]]

\* The requests the web server may be serving at the same time.
Requests == {"r1", "r2"}
NoneInFlight == [loop |-> FALSE, req |-> [r \in Requests |-> ""]]

\* No transaction of the bot is between its SELECT and its UPDATEs.
NoTxn == [op |-> "none", user |-> "", used |-> 0]

AdminFrame ==
    /\ ops < MaxOps
    /\ ops' = ops + 1
    /\ UNCHANGED <<now, pc, rows, seen_owners>>

UpdateLimit ==
    /\ AdminFrame
    /\ \E u \in DOMAIN local_users, lim \in {0, UserLimit} :
         /\ lim # local_users[u].plan_limit_bytes
         /\ Commit(update_limit(World({}), OWNER, u, lim),
                   [Event("update_limit") EXCEPT !.user = u])
    /\ UNCHANGED remote_used
    /\ UNCHANGED <<bot_txn, inflight, attempts, aggr, canon>>
    /\ History

ResetUsed ==
    /\ AdminFrame
    /\ \E u \in DOMAIN local_users :
         /\ Commit(reset_used(World({}), OWNER, u),
                   [Event("reset_used") EXCEPT !.user = u])
         /\ \E reset_failed \in {{}, UserAccounts(World({}), u)} :
              remote_used' = [a \in TrafficAccounts |->
                                IF a \in UserAccounts(World({}), u) \ reset_failed
                                THEN 0 ELSE remote_used[a]]
    /\ UNCHANGED <<bot_txn, inflight, attempts, aggr, canon>>
    /\ History

DeleteUser ==
    /\ AdminFrame
    /\ \E u \in DOMAIN local_users :
         Commit(delete_local_user(World({}), OWNER, u),
                [Event("delete_user") EXCEPT !.user = u])
    /\ UNCHANGED remote_used
    /\ UNCHANGED <<bot_txn, inflight, attempts, aggr, canon>>
    /\ History

SetAgentQuota ==
    /\ AdminFrame
    /\ OWNER \in DOMAIN agents
    /\ \E lim \in {0, AgentLimit} :
         /\ lim # agents[OWNER].plan_limit_bytes
         /\ \E failed \in SUBSET Called(set_agent_quota(World({}), OWNER, lim, now)) :
              Commit(set_agent_quota(World(failed), OWNER, lim, now),
                     Event("set_agent_quota"))
    /\ UNCHANGED remote_used
    /\ UNCHANGED <<bot_txn, inflight, attempts, aggr, canon>>
    /\ History

RenewAgent ==
    /\ AdminFrame
    /\ OWNER \in DOMAIN agents
    /\ (IF agents[OWNER].expire_at # NULL THEN agents[OWNER].expire_at ELSE now) <= MaxTime
    /\ Commit(renew_agent_days(World({}), OWNER, 1, now), Event("renew_agent"))
    /\ UNCHANGED remote_used
    /\ UNCHANGED <<bot_txn, inflight, attempts, aggr, canon>>
    /\ History

SetAgentActive ==
    /\ AdminFrame
    /\ OWNER \in DOMAIN agents
    /\ Commit(set_agent_active(World({}), OWNER, 1 - agents[OWNER].active),
              Event("set_agent_active"))
    /\ UNCHANGED remote_used
    /\ UNCHANGED <<bot_txn, inflight, attempts, aggr, canon>>
    /\ History

\* ----------------------------------------------------------- environment
\* A remote account carries traffic: its cumulative counter grows.
Traffic ==
    /\ pc = "sleep"
    /\ \E a \in BusyAccounts :
         /\ remote_used[a] < MaxRemote
         /\ remote_used' = [remote_used EXCEPT ![a] = @ + 1]
    /\ ev' = Event("env")
    /\ UNCHANGED <<local_users, agents, links, now, pc, rows, seen_owners,
                   ops>>
    /\ UNCHANGED <<bot_txn, inflight, attempts, aggr, canon>>
    /\ History

\* A panel resets an account's counter on its own.
PanelReset ==
    /\ pc = "sleep"
    /\ ops < MaxOps
    /\ \E a \in TrafficAccounts :
         /\ remote_used[a] > 0
         /\ remote_used' = [remote_used EXCEPT ![a] = 0]
    /\ ops' = ops + 1
    /\ ev' = Event("env")
    /\ UNCHANGED <<local_users, agents, links, now, pc, rows, seen_owners>>
    /\ UNCHANGED <<bot_txn, inflight, attempts, aggr, canon>>
    /\ History

\* Time passes.  Only an agent's expire_at is ever compared with the clock, so
\* the clock is advanced only towards an expiry that is still ahead.
Tick ==
    /\ now < MaxTime
    /\ \E o \in DOMAIN agents : agents[o].expire_at # NULL /\ agents[o].expire_at > now
    /\ now' = now + 1
    /\ ev' = Event("env")
    /\ UNCHANGED <<local_users, agents, links, remote_used, pc, rows, seen_owners,
                   ops>>
    /\ UNCHANGED <<bot_txn, inflight, attempts, aggr, canon>>
    /\ History

\* ------------------------------------------------------- specification
\* upsert_local_user: the row of a new local user; upsert_agent: of a new agent.
NewUser(limit_bytes, exp) ==
    [owner_id |-> OWNER, plan_limit_bytes |-> limit_bytes, used_bytes |-> 0,
     expire_at |-> exp, disabled_pushed |-> 0]

\* upsert_agent, then set_agent_quota / renew_agent_days before any traffic.
NewAgent(limit_bytes, exp) ==
    [plan_limit_bytes |-> limit_bytes, expire_at |-> exp, active |-> 1,
     total_used_bytes |-> 0, disabled_pushed |-> 0]

Init ==
    /\ local_users = [u \in UserNames |->
                         IF u = "u1" THEN NewUser(UserLimit, 1) ELSE NewUser(0, NULL)]
    /\ \/ agents = [o \in {} |-> NewAgent(0, NULL)]
       \/ agents = [o \in {OWNER} |-> NewAgent(AgentLimit, NULL)]
       \/ agents = [o \in {OWNER} |-> NewAgent(0, 2)]
    /\ links = [l \in {1, 2} |-> 0]
    /\ remote_used = [a \in TrafficAccounts |-> 0]
    /\ now = 1
    /\ pc = "sleep"
    /\ rows = <<>>
    /\ seen_owners = {}
    /\ ev = Event("init")
    /\ ops = 0
    /\ streak_used = [u \in UserNames |-> 0]
    /\ streak_last = [l \in LinkIds |-> 0]
    /\ pushed_since = {}
    /\ agent_pushed_since = {}
    /\ bot_txn = NoTxn
    /\ inflight = NoneInFlight
    /\ attempts = NoCalls
    /\ cycle = NoCycle
    /\ aggr = NoAggr
    /\ canon = NoCanon
    /\ flag_moved = NotMoved

Next ==
    \/ LoopStart
    \/ LoopLink
    \/ LoopAgents
    \/ SubRead
    \/ UpdateLimit
    \/ ResetUsed
    \/ SetAgentQuota
    \/ RenewAgent
    \/ SetAgentActive
    \/ Traffic
    \/ PanelReset
    \/ Tick

Spec == Init /\ [][Next]_vars

\* -------------------------------------------------------------- properties
LinksOfUser(u) == {l \in DOMAIN links : LinkDef(l).local_username = u}
SumLinks(f, S) == SumSeq(f, SetToSeq(S))

\* A poll that fetched a value: a successful one is not below the baseline it
\* was compared with, a regression is.
PollOk ==
    ev.op = "poll" /\ ev.used >= 0 /\ ev.used >= ev.last
PollRegressed ==
    ev.op = "poll" /\ ev.used >= 0 /\ ev.used < ev.last

\* C1: over a streak of successful polls with non-decreasing reported usage and
\* no reset or deletion, a user's used_bytes has grown by exactly the sum over
\* its links of (last_used_traffic now - last_used_traffic at the start of the
\* streak), and a link just polled stores the value the poll reported.
C1_DeltaAccounting ==
    /\ \A u \in DOMAIN local_users :
          local_users[u].used_bytes
            = streak_used[u]
              + SumLinks([l \in LinksOfUser(u) |-> links[l] - streak_last[l]],
                         LinksOfUser(u))
    /\ (ev.op = "poll" /\ ev.used >= 0 /\ ev.link \in DOMAIN links)
          => links[ev.link] = ev.used

C1_Witness ==
    /\ PollOk
    /\ ev.used > ev.last
    /\ ev.last > streak_last[ev.link]
    /\ local_users[ev.user].used_bytes > streak_used[ev.user]

\* C2: a poll that reports less than the stored last_used_traffic credits
\* nothing (every used_bytes and total_used_bytes is unchanged) and stores the
\* lower value as the new baseline; in every other step no link's
\* last_used_traffic decreases.
C2_Step ==
    IF PollRegressed'
    THEN /\ ev'.last = links[ev'.link]
         /\ links'[ev'.link] = ev'.used
         /\ \A u \in DOMAIN local_users :
               local_users'[u].used_bytes = local_users[u].used_bytes
         /\ \A o \in DOMAIN agents :
               agents'[o].total_used_bytes = agents[o].total_used_bytes
         /\ \A l \in DOMAIN links \ {ev'.link} : links'[l] = links[l]
    ELSE \A l \in DOMAIN links \cap DOMAIN links' : links'[l] >= links[l]

C2_RegressionRebases == [][C2_Step]_vars

C2_Witness ==
    /\ PollRegressed
    /\ links[ev.link] = ev.used
    /\ local_users[ev.user].used_bytes > 0
    /\ ev.used > 0

\* C3: once an entity went OK -> PUSHED and has stayed over quota since, a later
\* poll cycle that evaluates it issues no disable call: not in the poll of a
\* link of such a user, not in the agent pass for such an agent.
C3_Step ==
    /\ (PollOk' /\ ev'.user \in pushed_since /\ ev'.user \in pushed_since')
          => ev'.disable = NoCalls
    /\ (ev'.op = "agents" /\ agent_pushed_since # {} /\ agent_pushed_since' # {})
          => ev'.disable = NoCalls

C3_NoRepeatedDisable == [][C3_Step]_vars

\* C4: when an OK -> PUSHED transition fires, disabled_pushed is 1 once the
\* disable calls have been issued, whether all, some or none of them succeeded:
\* the user's flag after a poll that issued disable calls, the agent's flag and
\* the flag of each of its users after an agent evaluation that issued them.
C4_FlagSetWhateverTheOutcome ==
    /\ (ev.op = "poll" /\ ev.disable # NoCalls)
          => /\ ev.outcome \in {"ok", "some_failed", "all_failed"}
             /\ local_users[ev.user].disabled_pushed = 1
    /\ (ev.op \in {"agents", "set_agent_quota"} /\ ev.disable # NoCalls)
          => /\ ev.outcome \in {"ok", "some_failed", "all_failed"}
             /\ agents[OWNER].disabled_pushed = 1
             /\ \A u \in DOMAIN local_users : local_users[u].disabled_pushed = 1

C4_Witness ==
    /\ ev.op = "poll"
    /\ ev.link = 2
    /\ ev.disable[<<"p2", "x">>] = 1
    /\ ev.disable[<<"p2", "y">>] = 1
    /\ ev.outcome = "some_failed"
    /\ local_users[ev.user].disabled_pushed = 1

\* The evaluations a step carries out: the user-level one of the polled link's
\* user, the agent-level one of each owner touched in the cycle or synced on a
\* quota change.
UserEvaluated(u) == PollOk' /\ ev'.user = u /\ u \in DOMAIN local_users
AgentEvaluated(o) ==
    /\ o \in DOMAIN agents
    /\ \/ ev'.op = "agents" /\ o \in seen_owners
       \/ ev'.op = "set_agent_quota" /\ o = OWNER
UserOver(u) == SpecOverQuota(local_users'[u], local_users'[u].used_bytes)
UserExpired(u) == SpecExpired(local_users'[u], now)
AgentOver(o) == SpecOverQuota(agents'[o], agents'[o].total_used_bytes)
AgentIsExpired(o) == SpecExpired(agents'[o], now)
DisabledEveryAccountOf(u) ==
    \A l \in LinksOfUser(u) : \A a \in LinkAccounts(l) : ev'.disable[a] >= 1
EnabledEveryAccountOf(u) ==
    \A l \in LinksOfUser(u) : \A a \in LinkAccounts(l) : ev'.enable[a] >= 1

\* C5 as stated: for every user and agent with disabled_pushed = 0, an enforcer
\* evaluation fires OK -> PUSHED exactly when the entity is over quota or
\* expired; an expired user under quota is disabled and marked PUSHED.
C5_Stated_Step ==
    /\ \A u \in DOMAIN local_users :
          (UserEvaluated(u) /\ local_users[u].disabled_pushed = 0)
            => (local_users'[u].disabled_pushed = 1 <=> (UserOver(u) \/ UserExpired(u)))
    /\ \A o \in DOMAIN agents :
          (AgentEvaluated(o) /\ agents[o].disabled_pushed = 0)
            => (agents'[o].disabled_pushed = 1 <=> (AgentOver(o) \/ AgentIsExpired(o)))

C5_Stated == [][C5_Stated_Step]_vars

\* C5 amended: with disabled_pushed = 0, the user-level evaluation fires
\* OK -> PUSHED exactly when the user is over quota, whatever its expire_at; the
\* agent-level evaluation of an active agent fires exactly when the agent is
\* over quota or expired, and an inactive agent is left alone.  On firing, a
\* disable call goes to every mapped remote account and the flag is set.
C5_Step ==
    /\ \A u \in DOMAIN local_users :
          (UserEvaluated(u) /\ local_users[u].disabled_pushed = 0)
            => /\ local_users'[u].disabled_pushed = 1 <=> UserOver(u)
               /\ UserOver(u) => DisabledEveryAccountOf(u)
               /\ ~UserOver(u) => ev'.disable = NoCalls
    /\ \A o \in DOMAIN agents :
          (AgentEvaluated(o) /\ agents[o].disabled_pushed = 0)
            => IF agents'[o].active = 1
               THEN /\ agents'[o].disabled_pushed = 1
                         <=> (AgentOver(o) \/ AgentIsExpired(o))
                    /\ (AgentOver(o) \/ AgentIsExpired(o))
                         => \A u \in DOMAIN local_users :
                              /\ local_users'[u].disabled_pushed = 1
                              /\ DisabledEveryAccountOf(u)
                              /\ \A p \in list_agent_assigned_panels(o) :
                                    ev'.disable[<<p, u>>] >= 1
                    /\ ~(AgentOver(o) \/ AgentIsExpired(o)) => ev'.disable = NoCalls
               ELSE agents'[o].disabled_pushed = 0 /\ ev'.disable = NoCalls

C5_FiresWhenOver == [][C5_Step]_vars

C5_Witness ==
    /\ PollOk
    /\ ev.used > ev.last
    /\ ev.disable # NoCalls
    /\ local_users[ev.user].used_bytes = local_users[ev.user].plan_limit_bytes
    /\ SpecExpired(local_users[ev.user], now)
    /\ local_users[ev.user].disabled_pushed = 1

\* C6 as stated: for every user and agent with disabled_pushed = 1, an enforcer
\* evaluation fires PUSHED -> OK exactly when the entity is neither over quota
\* nor expired, and the flag of an expired entity is never cleared.
C6_Stated_Step ==
    /\ \A u \in DOMAIN local_users :
          /\ (UserEvaluated(u) /\ local_users[u].disabled_pushed = 1)
                => (local_users'[u].disabled_pushed = 0
                      <=> (~UserOver(u) /\ ~UserExpired(u)))
          /\ (local_users[u].disabled_pushed = 1 /\ local_users'[u].disabled_pushed = 0)
                => ~UserExpired(u)
    /\ \A o \in DOMAIN agents :
          /\ (AgentEvaluated(o) /\ agents[o].disabled_pushed = 1)
                => (agents'[o].disabled_pushed = 0
                      <=> (~AgentOver(o) /\ ~AgentIsExpired(o)))
          /\ (agents[o].disabled_pushed = 1 /\ agents'[o].disabled_pushed = 0)
                => ~AgentIsExpired(o)

C6_Stated == [][C6_Stated_Step]_vars

\* C6 amended: with disabled_pushed = 1, the user-level evaluation fires
\* PUSHED -> OK exactly when the user is not over quota, whatever its expire_at;
\* the agent-level evaluation of an active agent fires exactly when the agent is
\* neither over quota nor expired, and an inactive agent is left alone.  On
\* firing, an enable call goes to every mapped remote account and the flag is
\* cleared; no step clears the flag of an agent that is over quota or expired.
C6_Step ==
    /\ \A u \in DOMAIN local_users :
          (UserEvaluated(u) /\ local_users[u].disabled_pushed = 1)
            => /\ local_users'[u].disabled_pushed = 0 <=> ~UserOver(u)
               /\ ~UserOver(u) => EnabledEveryAccountOf(u)
               /\ UserOver(u) => ev'.enable = NoCalls
    /\ \A o \in DOMAIN agents :
          /\ (AgentEvaluated(o) /\ agents[o].disabled_pushed = 1)
                => IF agents'[o].active = 1
                   THEN /\ agents'[o].disabled_pushed = 0
                             <=> (~AgentOver(o) /\ ~AgentIsExpired(o))
                        /\ (~AgentOver(o) /\ ~AgentIsExpired(o))
                             => \A u \in DOMAIN local_users :
                                  /\ EnabledEveryAccountOf(u)
                                  /\ \A p \in list_agent_assigned_panels(o) :
                                        ev'.enable[<<p, u>>] >= 1
                        /\ (AgentOver(o) \/ AgentIsExpired(o)) => ev'.enable = NoCalls
                   ELSE agents'[o].disabled_pushed = 1 /\ ev'.enable = NoCalls
          /\ (agents[o].disabled_pushed = 1 /\ agents'[o].disabled_pushed = 0)
                => (~AgentOver(o) /\ ~AgentIsExpired(o))

C6_FiresWhenOk == [][C6_Step]_vars

C6_Witness ==
    /\ PollOk
    /\ ev.enable # NoCalls
    /\ ev.outcome = "some_failed"
    /\ local_users[ev.user].plan_limit_bytes > 0
    /\ SpecExpired(local_users[ev.user], now)
    /\ local_users[ev.user].disabled_pushed = 0

\* C7: while an agent has disabled_pushed = 1 and is over quota or expired,
\* every user it owns has disabled_pushed = 1, in every state the poll cycles
\* and the subscription reads lead to.
C7_AgentPushedCoversUsers ==
    \A o \in DOMAIN agents :
       (/\ agents[o].disabled_pushed = 1
        /\ \/ SpecOverQuota(agents[o], agents[o].total_used_bytes)
           \/ SpecExpired(agents[o], now))
         => \A u \in DOMAIN local_users :
              local_users[u].owner_id = o => local_users[u].disabled_pushed = 1

\* The state a subscription read has just been served in.  A read changes
\* neither usage, limits, expiry nor the clock, so the predicates the gate read
\* are those of the state after it.
ReadOf(u) == ev.op = "read" /\ ev.user = u /\ u \in DOMAIN local_users
OwnerOverOrExpired(u) ==
    LET o == local_users[u].owner_id
    IN /\ o \in DOMAIN agents
       /\ \/ SpecOverQuota(agents[o], agents[o].total_used_bytes)
          \/ SpecExpired(agents[o], now)
OwnerActive(u) == agents[local_users[u].owner_id].active = 1
ReadUserOver(u) == SpecOverQuota(local_users[u], local_users[u].used_bytes)
ReadUserExpired(u) == SpecExpired(local_users[u], now)
NoLinksServed == ~ev.aggregated /\ ev.body \in {"", "limit reached", "html"}

\* C8 as stated: a read never invokes the aggregator nor returns aggregated
\* links when the owning agent is over quota or expired or the user is over
\* quota or expired.
C8_Stated ==
    \A u \in DOMAIN local_users :
       (ReadOf(u) /\ (OwnerOverOrExpired(u) \/ ReadUserOver(u) \/ ReadUserExpired(u)))
         => NoLinksServed

\* C8 amended: a read never invokes the aggregator nor returns aggregated links
\* when the owning active agent is over quota or expired, or the user is over
\* quota, whatever the disabled_pushed flags are and whether or not a poll
\* cycle has run.
C8_GateBlocksAggregation ==
    \A u \in DOMAIN local_users :
       (ReadOf(u) /\ ((OwnerOverOrExpired(u) /\ OwnerActive(u)) \/ ReadUserOver(u)))
         => NoLinksServed

C8_Witness ==
    /\ ReadOf(ev.user)
    /\ ~ev.html
    /\ ReadUserOver(ev.user)
    /\ ~OwnerOverOrExpired(ev.user)
    /\ local_users[ev.user].disabled_pushed = 1
    /\ ev.disable = NoCalls
    /\ NoLinksServed

\* The gate's own predicates, on the row the read fetches: the agent gate looks
\* at the owner's active agent row, the user gate at the user's quota.
AgentGateHolds(u) == OwnerOverOrExpired(u) /\ OwnerActive(u)
PlainRead(u) == ev'.op = "read" /\ ev'.user = u /\ ~ev'.html /\ u \in DOMAIN local_users
AgentLinkAccounts(o) ==
    UNION {LinkAccounts(l) : l \in {k \in DOMAIN links : LinkDef(k).owner_id = o}}

\* C9: on a plain-text read where the agent-level predicate holds, the agent gate
\* acts first and alone: the body is empty whatever the disable calls returned
\* and whatever the user's own state, the agent has disabled_pushed = 1
\* afterwards, the user rows are untouched, and disable calls (one per remote
\* account of the agent's links) are issued only if the agent's flag was 0.
C9_Step ==
    \A u \in DOMAIN local_users :
       (PlainRead(u) /\ AgentGateHolds(u))
         => LET o == local_users[u].owner_id
            IN /\ ev'.body = ""
               /\ ~ev'.aggregated
               /\ agents'[o].disabled_pushed = 1
               /\ local_users' = local_users
               /\ \A a \in Accounts :
                     ev'.disable[a] = IF agents[o].disabled_pushed = 0
                                         /\ a \in AgentLinkAccounts(o)
                                      THEN 1 ELSE 0

C10_Step ==
    \A u \in DOMAIN local_users :
       (PlainRead(u) /\ ~AgentGateHolds(u) /\ ReadUserOver(u))
         => /\ ev'.body = "limit reached"
            /\ ~ev'.aggregated
            /\ local_users'[u].disabled_pushed = 1
            /\ local_users[u].disabled_pushed = 1 => ev'.disable = NoCalls
            /\ local_users[u].disabled_pushed = 0 =>
                  \A a \in Accounts :
                     ev'.disable[a] = IF \E l \in LinksOfUser(u) : a \in LinkAccounts(l)
                                      THEN 1 ELSE 0
            /\ agents' = agents

C11_Step ==
    \A u \in DOMAIN local_users :
       (/\ ev'.op = "read" /\ ev'.user = u
        /\ AgentGateHolds(u)
        /\ agents[local_users[u].owner_id].disabled_pushed = 0)
         => LET o == local_users[u].owner_id
                e == try_disable_agent_if_exceeded(World({}), o, now)
            IN /\ {a \in Accounts : ev'.disable[a] > 0} = {a \in Accounts : e.dis[a] > 0}
               /\ agents'[o].disabled_pushed = e.ag[o].disabled_pushed
               /\ \A v \in DOMAIN local_users :
                     local_users'[v].disabled_pushed = e.lu[v].disabled_pushed

C11_GateAsEnforcer == [][C11_Step]_vars

\* ------------------------------------ interleaved bot.py transactions
\* reset_used and delete_local_user read the user's row (SELECT used_bytes,
\* owner_id) and write afterwards in the same transaction; the SELECT takes no
\* lock, so usage_sync's add_usage may commit between the two.

\* reset_used from its first UPDATE on, with the used_bytes its SELECT returned.
reset_used_write(w, owner_real, username, prev_used) ==
    creditRemoval(
        [w EXCEPT !.lu = [u \in DOMAIN w.lu |->
                            IF u = username
                            THEN [w.lu[u] EXCEPT !.used_bytes = 0]
                            ELSE w.lu[u]]],
        owner_real, prev_used)

\* delete_local_user from its first DELETE on.
delete_local_user_write(w, owner_real, username, used) ==
    creditRemoval(
        [w EXCEPT !.ln = [l \in {k \in DOMAIN w.ln :
                                   ~(LinkDef(k).owner_id = owner_real
                                     /\ LinkDef(k).local_username = username)} |->
                            w.ln[l]],
                  !.lu = [u \in DOMAIN w.lu \ {username} |-> w.lu[u]]],
        owner_real, used)

\* For the event record of a write: the owner's total_used_bytes it found.
TotalBefore(o) == IF o \in DOMAIN agents THEN agents[o].total_used_bytes ELSE 0

\* SELECT used_bytes, owner_id FROM local_users ... LIMIT 1
BotSelect ==
    /\ bot_txn = NoTxn
    /\ ops < MaxOps
    /\ \E u \in DOMAIN local_users, op \in {"reset_used", "delete_user"} :
         /\ bot_txn' = [op |-> op, user |-> u, used |-> local_users[u].used_bytes]
         /\ ev' = [Event("select") EXCEPT !.user = u]
    /\ ops' = ops + 1
    /\ UNCHANGED <<local_users, agents, links, remote_used, now, pc, rows, seen_owners>>
    /\ UNCHANGED <<inflight, attempts, aggr, canon>>
    /\ History

ResetUsedWrite ==
    /\ bot_txn.op = "reset_used"
    /\ Commit(reset_used_write(World({}), OWNER, bot_txn.user, bot_txn.used),
              [Event("reset_used") EXCEPT !.user = bot_txn.user,
                                          !.used = bot_txn.used,
                                          !.last = TotalBefore(OWNER)])
    /\ \E reset_failed \in {{}, UserAccounts(World({}), bot_txn.user)} :
         remote_used' = [a \in TrafficAccounts |->
                           IF a \in UserAccounts(World({}), bot_txn.user) \ reset_failed
                           THEN 0 ELSE remote_used[a]]
    /\ bot_txn' = NoTxn
    /\ UNCHANGED <<now, pc, rows, seen_owners, ops>>
    /\ UNCHANGED <<inflight, attempts, aggr, canon>>
    /\ History

DeleteUserWrite ==
    /\ bot_txn.op = "delete_user"
    /\ Commit(delete_local_user_write(World({}), OWNER, bot_txn.user, bot_txn.used),
              [Event("delete_user") EXCEPT !.user = bot_txn.user,
                                           !.used = bot_txn.used,
                                           !.last = TotalBefore(OWNER)])
    /\ bot_txn' = NoTxn
    /\ UNCHANGED <<remote_used, now, pc, rows, seen_owners, ops>>
    /\ UNCHANGED <<inflight, attempts, aggr, canon>>
    /\ History

NextInterleaved ==
    \/ LoopStart
    \/ LoopLink
    \/ LoopAgents
    \/ Traffic
    \/ BotSelect
    \/ ResetUsedWrite
    \/ DeleteUserWrite

SpecInterleaved == Init /\ [][NextInterleaved]_vars

UsedSum(o) ==
    SumSeq([u \in DOMAIN local_users |-> local_users[u].used_bytes],
           AnyOrder({u \in DOMAIN local_users : local_users[u].owner_id = o}))

\* C12: in every reachable state, with add_usage of the poll loop interleaved
\* with reset_used and delete_local_user, each agent's total_used_bytes equals
\* the sum of used_bytes of the users it owns.
C12_SumInvariant ==
    \A o \in DOMAIN agents : agents[o].total_used_bytes = UsedSum(o)

\* ------------------- the loop and the gate, one database statement at a time
\* In the source the flag is read (get_local_user), the disable calls are made
\* over HTTP, and only then the flag is written by an unconditional UPDATE; the
\* loop runs in its own process and the web server serves requests in threads.
\* Below, the read and the calls-then-write are separate steps.

\* The loop body up to get_local_user in try_disable_if_user_exceeded: the
\* database after the credit, whether the owner is seen, whether the disable
\* was decided.
process_row_credit(w, row, used) ==
    LET d == LinkDef(row.link_id)
        last == row.last_used_traffic
    IN IF used = -1 THEN [w |-> w, seen |-> FALSE, fire |-> FALSE]
       ELSE IF used < last
            THEN [w |-> update_last(w, row.link_id, used), seen |-> FALSE,
                  fire |-> FALSE]
       ELSE LET w1 == IF used - last > 0
                      THEN update_last(
                               add_usage(w, d.owner_id, d.local_username, used - last),
                               row.link_id, used)
                      ELSE w
                fire == /\ d.local_username \in DOMAIN w1.lu
                        /\ UserOverLimit(w1.lu[d.local_username])
                        /\ w1.lu[d.local_username].disabled_pushed = 0
            IN [w |-> IF fire THEN w1
                      ELSE try_enable_if_user_ok(w1, d.owner_id, d.local_username),
                seen |-> ~fire, fire |-> fire]

\* The rest of the body once the disable was decided: the calls, the flag,
\* try_enable_if_user_ok.
process_row_disable(w, row) ==
    LET d == LinkDef(row.link_id)
    IN try_enable_if_user_ok(
           mark_user_disabled(
               DisableLinks(w, list_links_of_local_user(w, d.owner_id, d.local_username)),
               d.owner_id, d.local_username),
           d.owner_id, d.local_username)

LoopPoll ==
    /\ pc = "links"
    /\ rows # <<>>
    /\ ~inflight.loop
    /\ \E fetch_failed \in SUBSET LinkAccounts(Head(rows).link_id) :
         LET row == Head(rows)
             r == process_row_credit(World({}), row,
                                     fetch_used_traffic(row.link_id, fetch_failed))
         IN /\ Commit(r.w,
                      [Event("poll") EXCEPT
                          !.link = row.link_id,
                          !.user = LinkDef(row.link_id).local_username,
                          !.used = fetch_used_traffic(row.link_id, fetch_failed),
                          !.last = row.last_used_traffic])
            /\ seen_owners' = IF r.seen
                              THEN seen_owners \cup {LinkDef(row.link_id).owner_id}
                              ELSE seen_owners
            /\ inflight' = [inflight EXCEPT !.loop = r.fire]
            /\ rows' = IF r.fire THEN rows ELSE Tail(rows)
            /\ pc' = IF ~r.fire /\ Tail(rows) = <<>> THEN "agents" ELSE "links"
    /\ UNCHANGED <<remote_used, now, ops, bot_txn, attempts, aggr, canon>>
    /\ History

LoopDisable ==
    /\ pc = "links"
    /\ inflight.loop
    /\ \E failed \in SUBSET Called(process_row_disable(World({}), Head(rows))) :
         LET w == process_row_disable(World(failed), Head(rows))
         IN /\ Commit(w, [Event("disable") EXCEPT
                             !.link = Head(rows).link_id,
                             !.user = LinkDef(Head(rows).link_id).local_username])
            /\ attempts' = Sum(attempts, w.dis)
    /\ seen_owners' = seen_owners \cup {LinkDef(Head(rows).link_id).owner_id}
    /\ inflight' = [inflight EXCEPT !.loop = FALSE]
    /\ rows' = Tail(rows)
    /\ pc' = IF Tail(rows) = <<>> THEN "agents" ELSE "links"
    /\ UNCHANGED <<remote_used, now, ops, bot_txn, aggr, canon>>
    /\ History

\* unified_links up to `pushed_u = lu.disabled_pushed`: a request that finds the
\* agent gate open, the user over quota and the flag 0.
ReadObserve(r) ==
    /\ inflight.req[r] = ""
    /\ \E u \in DOMAIN local_users :
         /\ ~AgentGate(World({}), OWNER, now)
         /\ UserGate(World({}), u)
         /\ local_users[u].disabled_pushed = 0
         /\ inflight' = [inflight EXCEPT !.req[r] = u]
         /\ ev' = [Event("observe") EXCEPT !.user = u]
    /\ UNCHANGED <<local_users, agents, links, remote_used, now, pc, rows,
                   seen_owners, ops, bot_txn, attempts, aggr, canon>>
    /\ History

\* The user-level block of unified_links once `not pushed` was read: the
\* disable calls and mark_user_disabled.
gate_user_push(w, owner_id, local_username) ==
    mark_user_disabled(
        IF list_mapped_links(w, owner_id, local_username) # <<>>
        THEN DisableLinks(w, list_mapped_links(w, owner_id, local_username))
        ELSE DisableOnPanels(w, AnyOrder(list_all_panels(w, owner_id)), local_username),
        owner_id, local_username)

\* ... and from there on: the disable calls, mark_user_disabled, the response.
ReadDisable(r) ==
    /\ inflight.req[r] # ""
    /\ \E want_html \in BOOLEAN,
          failed \in SUBSET Called(gate_user_push(World({}), OWNER, inflight.req[r])) :
         LET w == gate_user_push(World(failed), OWNER, inflight.req[r])
         IN /\ Commit(w, [Event("read") EXCEPT
                             !.user = inflight.req[r], !.html = want_html,
                             !.body = IF want_html THEN "html" ELSE "limit reached"])
            /\ attempts' = Sum(attempts, w.dis)
    /\ inflight' = [inflight EXCEPT !.req[r] = ""]
    /\ UNCHANGED <<remote_used, now, pc, rows, seen_owners, ops, bot_txn,
                   aggr, canon>>
    /\ History

NextGateRace ==
    \/ Traffic
    \/ LoopStart
    \/ LoopPoll
    \/ LoopDisable
    \/ LoopAgents
    \/ \E r \in Requests : ReadObserve(r)
    \/ \E r \in Requests : ReadDisable(r)

\* No agent row: every transition below is a user's.
InitGateRace == Init /\ DOMAIN agents = {}

SpecGateRace == InitGateRace /\ [][NextGateRace]_vars

\* C13: for one OK -> PUSHED transition of a user, however the loop and the
\* concurrent read requests that saw the flag at 0 interleave, each remote
\* account receives at most two disable attempts.
C13_AtMostTwoAttempts == \A a \in Accounts : attempts[a] <= 2

\* The flag of a user is raised at most once in SpecGateRace (used_bytes never
\* decreases there), so the attempts counted belong to one transition.
C13_OneTransition ==
    [][\A u \in DOMAIN local_users :
         local_users[u].disabled_pushed = 1 => local_users'[u].disabled_pushed = 1]_vars

\* C14: an entity whose plan_limit_bytes is 0 is never over quota, for the
\* enforcer and for the gate: a poll of a link of such a user issues no disable
\* call and leaves its flag at 0; a read of such a user whose agent gate is open
\* is served (no disable call, flag untouched, no "limit reached"); an agent
\* with limit 0 that is not expired never goes OK -> PUSHED, and its evaluation
\* by the loop or on a quota change issues no disable call.
C14_Step ==
    /\ \A u \in DOMAIN local_users :
          local_users[u].plan_limit_bytes = 0 =>
             /\ UserEvaluated(u)
                  => ev'.disable = NoCalls /\ local_users'[u].disabled_pushed = 0
             /\ (ev'.op = "read" /\ ev'.user = u /\ ~AgentGateHolds(u))
                  => /\ ev'.disable = NoCalls
                     /\ local_users'[u].disabled_pushed = local_users[u].disabled_pushed
                     /\ ev'.body # "limit reached"
                     /\ (~ev'.html => ev'.aggregated)
    /\ \A o \in DOMAIN agents :
          (agents'[o].plan_limit_bytes = 0 /\ ~AgentIsExpired(o)) =>
             /\ agents[o].disabled_pushed = 0 => agents'[o].disabled_pushed = 0
             /\ AgentEvaluated(o) => ev'.disable = NoCalls
             /\ (ev'.op = "read" /\ ~ReadUserOver(ev'.user)) => ev'.disable = NoCalls

C14_UnlimitedNeverOver == [][C14_Step]_vars

\* A user and its agent, both with limit 0 and usage recorded, just evaluated by
\* the loop and left alone.
C14_Witness ==
    /\ PollOk
    /\ ev.disable = NoCalls
    /\ local_users[ev.user].plan_limit_bytes = 0
    /\ local_users[ev.user].used_bytes > 0
    /\ local_users[ev.user].disabled_pushed = 0
    /\ OWNER \in DOMAIN agents
    /\ agents[OWNER].plan_limit_bytes = 0
    /\ agents[OWNER].total_used_bytes > 0
    /\ agents[OWNER].disabled_pushed = 0

\* C15: an active agent with plan_limit_bytes = 0 whose expire_at has passed is
\* PUSHED after any evaluation of it, by the loop, on a quota change or by a
\* read of one of its users, whatever its total_used_bytes; if its flag was 0
\* the step issued a disable call to every account linked to its users.
C15_Step ==
    \A o \in DOMAIN agents :
       (/\ agents'[o].plan_limit_bytes = 0
        /\ agents'[o].active = 1
        /\ AgentIsExpired(o)
        /\ \/ AgentEvaluated(o)
           \/ /\ ev'.op = "read"
              /\ ev'.user \in DOMAIN local_users
              /\ local_users[ev'.user].owner_id = o)
         => /\ agents'[o].disabled_pushed = 1
            /\ agents[o].disabled_pushed = 0
                 => \A a \in AgentLinkAccounts(o) : ev'.disable[a] >= 1

C15_ExpiredUnlimitedAgentPushed == [][C15_Step]_vars

\* The loop has just pushed an expired agent without a limit that has usage on
\* record.
C15_Witness ==
    /\ ev.op = "agents"
    /\ OWNER \in DOMAIN agents
    /\ agents[OWNER].plan_limit_bytes = 0
    /\ agents[OWNER].active = 1
    /\ SpecExpired(agents[OWNER], now)
    /\ agents[OWNER].total_used_bytes > 0
    /\ agents[OWNER].disabled_pushed = 1
    /\ \A a \in AgentLinkAccounts(OWNER) : ev.disable[a] >= 1

\* The accounts behind the links of a user.
UserLinkAccounts(u) == UNION {LinkAccounts(l) : l \in LinksOfUser(u)}

\* C16: in the cycle whose poll takes a user from below its limit to
\* used >= limit, the polls of the user's links issue exactly one disable call
\* to each account linked to the user, however many of its links the cycle
\* processes.
C16_OneCallPerAccount ==
    \A u \in cycle.pushed : \A a \in UserLinkAccounts(u) : cycle.poll[a] = 1

\* The same count with the calls of the cycle's agent pass included.
C16_OneCallInCycle ==
    \A u \in cycle.pushed : \A a \in UserLinkAccounts(u) :
       cycle.poll[a] + cycle.agents[a] = 1

\* What the crossing poll itself does: it stores used + delta, sets the flag
\* and issues one disable call to each account linked to the user and none
\* elsewhere; a poll of a link of a user whose flag is 1 issues none.
C16_CrossingStep ==
    /\ \A u \in DOMAIN local_users :
          (/\ UserEvaluated(u)
           /\ local_users[u].disabled_pushed = 0
           /\ ~SpecOverQuota(local_users[u], local_users[u].used_bytes)
           /\ SpecOverQuota(local_users[u],
                            local_users[u].used_bytes + (ev'.used - ev'.last)))
            => /\ local_users'[u].used_bytes
                    = local_users[u].used_bytes + (ev'.used - ev'.last)
               /\ local_users'[u].disabled_pushed = 1
               /\ \A a \in Accounts :
                     ev'.disable[a] = IF a \in UserLinkAccounts(u) THEN 1 ELSE 0
               /\ u \in cycle'.pushed
    /\ \A u \in DOMAIN local_users :
          (ev'.op = "poll" /\ ev'.user = u /\ local_users[u].disabled_pushed = 1)
            => ev'.disable = NoCalls

C16_CrossingPoll == [][C16_CrossingStep]_vars

\* C17: a poll whose fetch fails changes nothing: every last_used_traffic,
\* used_bytes, disabled_pushed and total_used_bytes is as before, no remote call
\* is issued and the owner is not added to seen_owners; and every cycle starts
\* from one row per stored link carrying the stored last_used_traffic, so the
\* link is polled again against the baseline the failure left in place.
C17_Step ==
    /\ (ev'.op = "poll" /\ ev'.used = -1)
         => /\ links' = links
            /\ local_users' = local_users
            /\ agents' = agents
            /\ ev'.disable = NoCalls
            /\ ev'.enable = NoCalls
            /\ seen_owners' = seen_owners
    /\ ev'.op = "fetch_all"
         => /\ Len(rows') = Cardinality(DOMAIN links)
            /\ \A l \in DOMAIN links :
                  \E i \in 1..Len(rows') :
                     rows'[i] = [link_id |-> l, last_used_traffic |-> links[l]]

C17_FetchFailureSkipsLink == [][C17_Step]_vars

\* A failed poll of a link whose account has traffic not yet credited, for a
\* user with usage on record.
C17_Witness ==
    /\ ev.op = "poll"
    /\ ev.used = -1
    /\ ev.link = 1
    /\ remote_used[<<"p1", "u1">>] > links[1]
    /\ local_users[ev.user].used_bytes > 0
    /\ local_users[ev.user].disabled_pushed = 0

RECURSIVE SumOver(_, _)
SumOver(f, S) ==
    IF S = {} THEN 0
    ELSE LET x == CHOOSE y \in S : TRUE IN f[x] + SumOver(f, S \ {x})

\* C18: the value a poll compares with the baseline is the sum of the traffic of
\* all identities of the link, or a failure (-1) when any of them cannot be
\* fetched; a failure stores and credits nothing, so the baseline afterwards is
\* the old one or the full sum, and the credit is nothing or the full sum minus
\* the baseline.
C18_Step ==
    ev'.op = "poll" =>
       LET l == ev'.link
           u == ev'.user
           full == SumOver(remote_used, LinkAccounts(l))
       IN /\ ev'.used \in {-1, full}
          /\ links'[l] \in {links[l], full}
          /\ local_users'[u].used_bytes - local_users[u].used_bytes
               \in {0, full - links[l]}
          /\ ev'.used = -1 => links'[l] = links[l]

C18_SumOrFailure == [][C18_Step]_vars

\* The two-identity link, whose baseline is the sum stored by an earlier poll,
\* fails as a whole with traffic pending on one identity.
C18_Witness ==
    /\ ev.op = "poll"
    /\ ev.link = 2
    /\ ev.used = -1
    /\ remote_used[<<"p2", "x">>] = 1
    /\ remote_used[<<"p2", "y">>] = 1
    /\ links[2] = 1

\* --------------------------------- an agent registered over existing users
\* upsert_agent inserts the agents row of any Telegram id the admin sends, with
\* total_used_bytes at its default 0, whatever usage the users stored under
\* that id already carry.
UpsertAgent ==
    /\ OWNER \notin DOMAIN agents
    /\ agents' = [o \in {OWNER} |-> NewAgent(0, NULL)]
    /\ ev' = Event("upsert_agent")
    /\ UNCHANGED <<local_users, links, remote_used, now, pc, rows, seen_owners, ops,
                   bot_txn, inflight, attempts, aggr, canon>>
    /\ History

NextRemoval ==
    \/ Traffic
    \/ LoopStart
    \/ LoopLink
    \/ LoopAgents
    \/ UpsertAgent
    \/ BotSelect
    \/ ResetUsedWrite
    \/ DeleteUserWrite

SpecRemoval == InitGateRace /\ [][NextRemoval]_vars

\* C19: an agent's total_used_bytes is never negative, with the decrement of
\* reset_used and delete_local_user interleaved with add_usage, and also when
\* the amount to subtract exceeds the total on record.
C19_NeverNegative == \A o \in DOMAIN agents : agents[o].total_used_bytes >= 0

\* A reset or deletion has just subtracted more than the total it found, which
\* add_usage had raised above 0, and left the total at 0.
C19_Witness ==
    /\ ev.op \in {"reset_used", "delete_user"}
    /\ OWNER \in DOMAIN agents
    /\ ev.last > 0
    /\ ev.used > ev.last
    /\ agents[OWNER].total_used_bytes = 0

\* ------------------------------- add_usage at the top of the counter's range
\* UPDATE local_users SET used_bytes = LEAST(used_bytes + delta, CounterMax), as
\* the database evaluates it against a signed BIGINT column.  delta reaches the
\* server as an integer literal: one within the signed range makes the sum
\* signed arithmetic, which raises "BIGINT value is out of range" beyond
\* ColumnMax; a larger one makes it unsigned arithmetic, out of range beyond
\* CounterMax, and the clamped value is then stored into the signed column: an
\* error under a strict sql_mode, the column's maximum otherwise.
\* ok = FALSE: the statement raised, the transaction is not committed.
add_usage_stmt(used, delta, strict) ==
    IF delta <= ColumnMax
    THEN IF used + delta > ColumnMax
         THEN [ok |-> FALSE, used |-> used]
         ELSE [ok |-> TRUE, used |-> Min(used + delta, CounterMax)]
    ELSE IF used + delta > CounterMax
         THEN [ok |-> FALSE, used |-> used]
         ELSE IF Min(used + delta, CounterMax) > ColumnMax
              THEN (IF strict THEN [ok |-> FALSE, used |-> used]
                    ELSE [ok |-> TRUE, used |-> ColumnMax])
              ELSE [ok |-> TRUE, used |-> Min(used + delta, CounterMax)]

\* The values the counter starts from and the deltas a poll may bring.
Starts == {0, 1, ColumnMax - 1, ColumnMax}
Deltas == {1, 2, ColumnMax - 1, ColumnMax, ColumnMax + 1, CounterMax}

ApplyDelta ==
    /\ \E delta \in Deltas, strict \in BOOLEAN :
         LET r == add_usage_stmt(local_users["u1"].used_bytes, delta, strict)
         IN /\ local_users' = [local_users EXCEPT !["u1"].used_bytes = r.used]
            /\ ev' = [Event("add_usage") EXCEPT
                         !.user = "u1", !.used = delta,
                         !.last = local_users["u1"].used_bytes,
                         !.outcome = IF r.ok THEN "ok" ELSE "error"]
    /\ UNCHANGED <<agents, links, remote_used, now, pc, rows, seen_owners, ops,
                   bot_txn, inflight, attempts, aggr, canon>>
    /\ History

InitCounter ==
    /\ \E s \in Starts :
         local_users = [u \in UserNames |->
                           IF u = "u1"
                           THEN [NewUser(0, NULL) EXCEPT !.used_bytes = s]
                           ELSE NewUser(0, NULL)]
    /\ agents = [o \in {} |-> NewAgent(0, NULL)]
    /\ links = [l \in {1, 2} |-> 0]
    /\ remote_used = [a \in TrafficAccounts |-> 0]
    /\ now = 1
    /\ pc = "sleep"
    /\ rows = <<>>
    /\ seen_owners = {}
    /\ ev = Event("init")
    /\ ops = 0
    /\ streak_used = [u \in UserNames |-> local_users[u].used_bytes]
    /\ streak_last = [l \in LinkIds |-> 0]
    /\ pushed_since = {}
    /\ agent_pushed_since = {}
    /\ bot_txn = NoTxn
    /\ inflight = NoneInFlight
    /\ attempts = NoCalls
    /\ cycle = NoCycle
    /\ aggr = NoAggr
    /\ canon = NoCanon
    /\ flag_moved = NotMoved

NextCounter == ApplyDelta

SpecCounter == InitCounter /\ [][NextCounter]_vars

\* C20: when used_bytes + delta exceeds the largest value the used_bytes counter
\* can hold, add_usage succeeds and leaves used_bytes at exactly that maximum.
C20_Step ==
    (ev'.op = "add_usage" /\ ev'.last + ev'.used > ColumnMax)
      => /\ ev'.outcome = "ok"
         /\ local_users'[ev'.user].used_bytes = ColumnMax

C20_Saturates == [][C20_Step]_vars

\* ------------------------------------------------ app.py: link aggregation
\* ALLOWED_SCHEMES, without the "://" every one of them ends with.
ALLOWED_SCHEMES == {"vless", "vmess", "trojan", "ss"}

\* A configuration line as a panel returns it.  pad is what surrounds the
\* text: "" nothing, "s" whitespace, "q" quotes; scheme is the text before
\* "://", body the text up to '#', name the text after '#'.
Lnk(pad, scheme, body, name) ==
    [pad |-> pad, scheme |-> scheme, body |-> body, name |-> name]

LinkA == Lnk("", "vless", "a", "n1")
LinkB == Lnk("", "vless", "b", "n2")
\* LinkA in quotes, as str(x) of a JSON list entry may be
LinkAq == Lnk("q", "vless", "a", "n1")
\* a line that is not a configuration URI
LinkJ == Lnk("", "http", "j", "n2")
\* the scheme in upper case
LinkU == Lnk("", "VLESS", "u", "n1")

LinkPool == {LinkA, LinkB, LinkAq, LinkJ, LinkU}

\* str.lower() of a scheme
lower(scheme) == IF scheme = "VLESS" THEN "vless" ELSE scheme

\* s.strip().strip('"').strip("'")
strip(s) == [s EXCEPT !.pad = ""]

\* ss.lower().startswith(ALLOWED_SCHEMES)
startswith_allowed(ss) == lower(ss.scheme) \in ALLOWED_SCHEMES

\* extract_name: the canonical form of the text after '#'.  Surrounding
\* whitespace is stripped by canonicalize_name, a trailing quote is not.
extract_name(link) ==
    IF link.pad = "q" THEN <<link.name, "\"">> ELSE <<link.name>>

\* A faulty merge: no scheme test.
RECURSIVE dedupe_any(_, _)
dedupe_any(lnks, out) ==
    IF lnks = <<>> THEN out
    ELSE LET ss == strip(Head(lnks))
         IN IF ss \in Range(out) THEN dedupe_any(Tail(lnks), out)
            ELSE dedupe_any(Tail(lnks), Append(out, ss))

filter_dedupe_any(lnks) == dedupe_any(lnks, <<>>)

\* A faulty merge: a repeated entry moves to the place of its last occurrence.
RECURSIVE dedupe_last(_, _)
dedupe_last(lnks, out) ==
    IF lnks = <<>> THEN out
    ELSE LET ss == strip(Head(lnks))
         IN IF ~startswith_allowed(ss) THEN dedupe_last(Tail(lnks), out)
            ELSE dedupe_last(Tail(lnks),
                             Append(SelectSeq(out, LAMBDA x : x # ss), ss))

filter_dedupe_last(lnks) == dedupe_last(lnks, <<>>)

\* The loop of filter_dedupe: out and seen so far, the links still to go.
RECURSIVE dedupe(_, _)
dedupe(lnks, out) ==
    IF lnks = <<>> THEN out
    ELSE LET ss == strip(Head(lnks))
         IN IF ~startswith_allowed(ss) THEN dedupe(Tail(lnks), out)
            ELSE IF ss \in Range(out) THEN dedupe(Tail(lnks), out)
            ELSE dedupe(Tail(lnks), Append(out, ss))

filter_dedupe(lnks) == dedupe(lnks, <<>>)

\* [x for x in links if (extract_name(x) or "") not in disabled_names]
name_filter(lnks, disabled_names) ==
    IF disabled_names # {}
    THEN SelectSeq(lnks, LAMBDA x : extract_name(x) \notin disabled_names)
    ELSE lnks

RECURSIVE enumerate_filter(_, _, _)
enumerate_filter(lnks, idx, disabled_nums) ==
    IF idx > Len(lnks) THEN <<>>
    ELSE (IF idx \in disabled_nums THEN <<>> ELSE <<lnks[idx]>>)
         \o enumerate_filter(lnks, idx + 1, disabled_nums)

\* [x for idx, x in enumerate(links, 1) if idx not in disabled_nums]
ordinal_filter(lnks, disabled_nums) ==
    IF disabled_nums # {} THEN enumerate_filter(lnks, 1, disabled_nums) ELSE lnks

\* The answers of the panels to one request, per remote account:
\* [links, err], err = "" for None.  The concatenation of the answers to the
\* identities rns, in that order.
RECURSIVE extend_links(_, _, _)
extend_links(panel_id, rns, resp) ==
    IF rns = <<>> THEN <<>>
    ELSE resp[<<panel_id, Head(rns)>>].links \o extend_links(panel_id, Tail(rns), resp)

RECURSIVE extend_errs(_, _, _)
extend_errs(panel_id, rns, resp) ==
    IF rns = <<>> THEN <<>>
    ELSE (IF resp[<<panel_id, Head(rns)>>].err # ""
          THEN <<[who |-> <<panel_id, Head(rns)>>,
                  err |-> resp[<<panel_id, Head(rns)>>].err]>>
          ELSE <<>>)
         \o extend_errs(panel_id, Tail(rns), resp)

\* The list a worker of collect_links has when its fetches are done, before
\* the filters: for a sanaei link with several identities the answers in the
\* order the inner tasks complete (inner), otherwise in the order of the
\* identities.
worker_fetched(l, resp, inner) ==
    LET d == LinkDef(l)
        rns == Remotes(PanelType(d.panel_id), d.remote_username)
    IN extend_links(d.panel_id,
                    IF PanelType(d.panel_id) = "sanaei" /\ Len(rns) > 1
                    THEN inner ELSE rns,
                    resp)

\* worker(l, dn_map, di_map): the links of one mapping after the name
\* filter and then the ordinal filter, and its errors.
worker(l, dn_map, di_map, resp, inner) ==
    LET d == LinkDef(l)
        rns == Remotes(PanelType(d.panel_id), d.remote_username)
    IN [links |-> ordinal_filter(name_filter(worker_fetched(l, resp, inner),
                                             dn_map[d.panel_id]),
                                 di_map[d.panel_id]),
        errs |-> extend_errs(d.panel_id,
                             IF PanelType(d.panel_id) = "sanaei" /\ Len(rns) > 1
                             THEN inner ELSE rns,
                             resp)]

\* collect_links: the worker results concatenated in the order the outer
\* tasks complete (outer, a permutation of mapped).
RECURSIVE collect_links(_, _, _, _, _)
collect_links(outer, dn_map, di_map, resp, inner) ==
    IF outer = <<>> THEN [all_links |-> <<>>, errors |-> <<>>]
    ELSE LET r == worker(Head(outer), dn_map, di_map, resp, inner)
             rest == collect_links(Tail(outer), dn_map, di_map, resp, inner)
         IN [all_links |-> r.links \o rest.all_links,
             errors |-> r.errs \o rest.errors]

\* A faulty body: the collected errors are never reported.
unified_links_body_silent(uniq, errors) ==
    IF uniq # <<>> THEN [kind |-> "links", lines |-> uniq]
    ELSE [kind |-> "", lines |-> <<>>]

\* A faulty body: the errors are appended to the links as comment lines.
unified_links_body_annotated(uniq, errors) ==
    IF uniq # <<>>
    THEN [kind |-> "links",
          lines |-> uniq \o [i \in 1..Len(errors) |-> [comment |-> errors[i]]]]
    ELSE IF errors # <<>>
    THEN [kind |-> "errors",
          lines |-> [i \in 1..Len(errors) |-> [comment |-> errors[i]]]]
    ELSE [kind |-> "", lines |-> <<>>]

\* The body of the subscription response, as lines: the merged links, else
\* the collected errors as "# " comment lines, else nothing.
unified_links_body(uniq, errors) ==
    IF uniq # <<>> THEN [kind |-> "links", lines |-> uniq]
    ELSE IF errors # <<>>
    THEN [kind |-> "errors",
          lines |-> [i \in 1..Len(errors) |-> [comment |-> errors[i]]]]
    ELSE [kind |-> "", lines |-> <<>>]

\* The longest list a panel returns for one account.
MaxLinks == 2

Perms(s) ==
    {p \in [1..Len(s) -> Range(s)] : \A i, j \in 1..Len(s) : i # j => p[i] # p[j]}

Lists(S, n) == UNION {[1..k -> S] : k \in 0..n}

\* fetch_links_from_panel of app.py: any list of lines (the JSON answer is
\* returned as it is), or no link and an error.
PanelResponses ==
    {[links |-> s, err |-> ""] : s \in Lists(LinkPool, MaxLinks)}
    \cup {[links |-> <<>>, err |-> "links HTTP 500"]}

\* sanaei.fetch_links_from_panel: one link built for the client, or an error.
SanaeiResponses ==
    {[links |-> <<k>>, err |-> ""] : k \in {LinkA, LinkB}}
    \cup {[links |-> <<>>, err |-> "not found"]}

\* load_disabled_filters: per panel the canonical names and the positive
\* indexes stored for it.
DisabledNameMaps == [Panels -> SUBSET {<<"n1">>}]

DisabledNumMaps == [Panels -> {{}, {1}, {2}}]

Mapped == <<1, 2>>

Aggregation(resp, dn, di, outer, inner) ==
    [stage |-> "fetched", resp |-> resp, dn |-> dn, di |-> di,
     outer |-> outer, inner |-> inner,
     all_links |-> <<>>, errors |-> <<>>, uniq |-> <<>>, lines |-> <<>>]

\* One read request for u1, whose links 1 (panel p1) and 2 (panel p2, two
\* identities) are mapped; u1 is under its limit or has reached it.
InitAggregate ==
    /\ \E p1 \in PanelResponses, x \in SanaeiResponses, y \in SanaeiResponses,
          dn \in DisabledNameMaps, di \in DisabledNumMaps,
          outer \in Perms(Mapped), inner \in Perms(LinkDef(2).remote_username),
          used \in {0, UserLimit} :
         /\ used = UserLimit => /\ p1 = [links |-> <<LinkA>>, err |-> ""]
                                /\ x = y /\ outer = Mapped
                                /\ dn = [p \in Panels |-> {}]
                                /\ di = [p \in Panels |-> {}]
                                /\ inner = LinkDef(2).remote_username
         /\ aggr = Aggregation([a \in BusyAccounts |->
                                   IF a = <<"p1", "u1">> THEN p1
                                   ELSE IF a = <<"p2", "x">> THEN x ELSE y],
                               dn, di, outer, inner)
         /\ local_users = [u \in UserNames |->
                              IF u = "u1"
                              THEN [NewUser(UserLimit, NULL) EXCEPT !.used_bytes = used]
                              ELSE NewUser(0, NULL)]
    /\ agents = [o \in {} |-> NewAgent(0, NULL)]
    /\ links = [l \in {1, 2} |-> 0]
    /\ remote_used = [a \in TrafficAccounts |-> 0]
    /\ now = 1
    /\ pc = "sleep"
    /\ rows = <<>>
    /\ seen_owners = {}
    /\ ev = Event("init")
    /\ ops = 0
    /\ streak_used = [u \in UserNames |-> local_users[u].used_bytes]
    /\ streak_last = [l \in LinkIds |-> 0]
    /\ pushed_since = {}
    /\ agent_pushed_since = {}
    /\ bot_txn = NoTxn
    /\ inflight = NoneInFlight
    /\ attempts = NoCalls
    /\ cycle = NoCycle
    /\ canon = NoCanon
    /\ flag_moved = NotMoved

\* unified_links for u1 with the aggregation of the request.
ReadAggregate ==
    /\ aggr.stage = "fetched"
    /\ Range(aggr.outer) = Range(list_mapped_links(World({}), OWNER, "u1"))
    /\ LET c == collect_links(aggr.outer, aggr.dn, aggr.di, aggr.resp, aggr.inner)
           uniq == filter_dedupe(c.all_links)
           b == unified_links_body(uniq, c.errors)
       IN \E failed \in SUBSET Called(unified_links(World({}), OWNER, "u1", FALSE,
                                                    b.kind, now).w) :
            LET r == unified_links(World(failed), OWNER, "u1", FALSE, b.kind, now)
            IN /\ Commit(r.w,
                         [Event("read") EXCEPT !.user = "u1", !.body = r.body,
                                               !.aggregated = r.aggregated])
               /\ aggr' = IF r.aggregated
                          THEN [aggr EXCEPT !.stage = "done",
                                            !.all_links = c.all_links,
                                            !.errors = c.errors,
                                            !.uniq = uniq,
                                            !.lines = b.lines]
                          ELSE [aggr EXCEPT !.stage = "gated"]
    /\ UNCHANGED <<remote_used, now, pc, rows, seen_owners, ops>>
    /\ UNCHANGED <<bot_txn, inflight, attempts, canon>>
    /\ History

NextAggregate == ReadAggregate

SpecAggregate == InitAggregate /\ [][NextAggregate]_vars

\* The position at which the entry v of the merged list is first seen in s.
FirstSeen(s, v) == CHOOSE k \in 1..Len(s) :
                       /\ strip(s[k]) = v
                       /\ \A m \in 1..(k - 1) : strip(s[m]) # v

\* C21: the merged output of an aggregation contains no two equal strings,
\* holds exactly the allowed entries of the concatenated per-panel lists, and
\* lists them in the order in which they are first seen there.
C21_DedupeFirstSeen ==
    aggr.stage = "done" =>
        /\ \A i, j \in 1..Len(aggr.uniq) : i # j => aggr.uniq[i] # aggr.uniq[j]
        /\ Range(aggr.uniq) = {strip(x) : x \in {y \in Range(aggr.all_links) :
                                                   startswith_allowed(strip(y))}}
        /\ \A i, j \in 1..Len(aggr.uniq) :
             i < j => FirstSeen(aggr.all_links, aggr.uniq[i])
                      < FirstSeen(aggr.all_links, aggr.uniq[j])

\* Two mappings return [A, B] and [A, B]: each entry appears once.
C21_Witness ==
    /\ aggr.stage = "done"
    /\ aggr.all_links = <<LinkA, LinkB, LinkA, LinkB>>
    /\ aggr.uniq = <<LinkA, LinkB>>

\* The set of links the request returns when its tasks complete in the
\* orders outer and inner.
ResultSet(outer, inner) ==
    Range(filter_dedupe(collect_links(outer, aggr.dn, aggr.di, aggr.resp,
                                      inner).all_links))

\* C22: for fixed panel responses and fixed disabled-config filters, the set
\* of links returned is the same for every completion order of the per-link
\* tasks and of the per-identity tasks.
C22_OrderIndependent ==
    aggr.stage = "done" =>
        \A outer \in Perms(Mapped), inner \in Perms(LinkDef(2).remote_username) :
            ResultSet(outer, inner) = Range(aggr.uniq)

\* The entries of a fetched list that are neither at a disabled position of
\* that list nor carry a disabled name.
RECURSIVE KeptByPosition(_, _, _, _)
KeptByPosition(fetched, idx, disabled_names, disabled_nums) ==
    IF idx > Len(fetched) THEN <<>>
    ELSE (IF idx \in disabled_nums \/ extract_name(fetched[idx]) \in disabled_names
          THEN <<>> ELSE <<fetched[idx]>>)
         \o KeptByPosition(fetched, idx + 1, disabled_names, disabled_nums)

\* C23: a link is removed by the ordinal filter exactly when its 1-based
\* position in the list fetched for its panel is a disabled index of that
\* panel, whatever the name filter removed and whatever other panels return:
\* what link 1 contributes is its fetched list without the entries at disabled
\* positions and without the entries with disabled names.
C23_OrdinalByFetchedPosition ==
    aggr.stage = "done" =>
        worker(1, aggr.dn, aggr.di, aggr.resp, aggr.inner).links
        = KeptByPosition(worker_fetched(1, aggr.resp, aggr.inner), 1,
                         aggr.dn[LinkDef(1).panel_id], aggr.di[LinkDef(1).panel_id])

\* C24 as stated: entries without an allowed scheme are dropped from the
\* list of a mapping before the ordinal filter counts positions, i.e. what
\* link 1 contributes is the filters applied to its allowed entries.
C24_DroppedBeforeOrdinal ==
    aggr.stage = "done" =>
        worker(1, aggr.dn, aggr.di, aggr.resp, aggr.inner).links
        = ordinal_filter(
              name_filter(SelectSeq(worker_fetched(1, aggr.resp, aggr.inner),
                                    LAMBDA x : startswith_allowed(strip(x))),
                          aggr.dn[LinkDef(1).panel_id]),
              aggr.di[LinkDef(1).panel_id])

\* C24: every entry of the aggregated result starts, compared without regard
\* to case, with one of the allowed schemes, and every line of a response
\* that carries links is such an entry; entries of other schemes that reach
\* the merge are dropped there.
C24_AllowedSchemesOnly ==
    aggr.stage = "done" =>
        /\ \A i \in 1..Len(aggr.uniq) : lower(aggr.uniq[i].scheme) \in ALLOWED_SCHEMES
        /\ ev.body = "links" => aggr.lines = aggr.uniq

\* A line of another scheme reached the merge, after taking a position in the
\* ordinal filter of its mapping, and is not in the response.
C24_Witness ==
    /\ aggr.stage = "done"
    /\ aggr.resp[<<"p1", "u1">>].links = <<LinkA, LinkJ>>
    /\ aggr.di["p1"] = {1}
    /\ LinkJ \in Range(aggr.all_links)
    /\ aggr.uniq # <<>>
    /\ LinkJ \notin Range(aggr.uniq)

\* ----------------------------------------------- app.py: canonicalize_name
\* A name is the sequence of its characters.  The characters of the names
\* explored; none of "/", the owner emoji and "(" is among them, so the
\* three re.sub calls that strip traffic annotations, the owner tag and
\* parenthesised tokens leave these names as they are.
NameChars == {"%", "2", "5", " ", "z"}

\* The longest name explored.
MaxName == 5

\* nm.strip()[:255]
NameMax == 255

HexDigits == {"2", "5"}

\* The character with the code given by two hex digits.
chr(h1, h2) ==
    CASE h1 = "2" /\ h2 = "2" -> "\""
      [] h1 = "2" /\ h2 = "5" -> "%"
      [] h1 = "5" /\ h2 = "2" -> "R"
      [] h1 = "5" /\ h2 = "5" -> "U"

\* urllib.parse.unquote: one pass from the left, every %XX replaced by the
\* character it encodes, anything else copied.
RECURSIVE unquote(_)
unquote(s) ==
    IF s = <<>> THEN <<>>
    ELSE IF Len(s) >= 3 /\ s[1] = "%" /\ s[2] \in HexDigits /\ s[3] \in HexDigits
    THEN <<chr(s[2], s[3])>> \o unquote(SubSeq(s, 4, Len(s)))
    ELSE <<s[1]>> \o unquote(Tail(s))

RECURSIVE lstrip(_)
lstrip(s) == IF s # <<>> /\ Head(s) = " " THEN lstrip(Tail(s)) ELSE s

RECURSIVE rstrip(_)
rstrip(s) ==
    IF s # <<>> /\ s[Len(s)] = " " THEN rstrip(SubSeq(s, 1, Len(s) - 1)) ELSE s

\* str.strip()
str_strip(s) == rstrip(lstrip(s))

\* re.sub(r"\s+", " ", nm)
RECURSIVE collapse_spaces(_)
collapse_spaces(s) ==
    IF s = <<>> THEN <<>>
    ELSE IF Head(s) = " " THEN <<" ">> \o collapse_spaces(lstrip(s))
    ELSE <<Head(s)>> \o collapse_spaces(Tail(s))

canonicalize_name(name) ==
    LET nm == collapse_spaces(str_strip(unquote(name)))
    IN SubSeq(str_strip(nm), 1, Min(Len(str_strip(nm)), NameMax))

Names == Lists(NameChars, MaxName)

\* A config name an admin disables for a panel: set_panel_disabled_names
\* stores its canonical form, load_disabled_filters canonicalizes the stored
\* form again for every request.
InitCanon ==
    /\ local_users = [u \in UserNames |->
                         IF u = "u1" THEN NewUser(UserLimit, 1) ELSE NewUser(0, NULL)]
    /\ agents = [o \in {} |-> NewAgent(0, NULL)]
    /\ links = [l \in {1, 2} |-> 0]
    /\ remote_used = [a \in TrafficAccounts |-> 0]
    /\ now = 1
    /\ pc = "sleep"
    /\ rows = <<>>
    /\ seen_owners = {}
    /\ ev = Event("init")
    /\ ops = 0
    /\ streak_used = [u \in UserNames |-> 0]
    /\ streak_last = [l \in LinkIds |-> 0]
    /\ pushed_since = {}
    /\ agent_pushed_since = {}
    /\ bot_txn = NoTxn
    /\ inflight = NoneInFlight
    /\ attempts = NoCalls
    /\ cycle = NoCycle
    /\ aggr = NoAggr
    /\ \E name \in Names :
         canon = [stage |-> "given", name |-> name, stored |-> <<>>, loaded |-> <<>>]
    /\ flag_moved = NotMoved

\* set_panel_disabled_names: canonicalize_name(n) is what the table holds.
StoreName ==
    /\ canon.stage = "given"
    /\ canon' = [canon EXCEPT !.stage = "stored",
                              !.stored = canonicalize_name(canon.name)]
    /\ ev' = Event("store_name")
    /\ UNCHANGED <<local_users, agents, links, remote_used, now, pc, rows,
                   seen_owners, ops, bot_txn, inflight, attempts, aggr>>
    /\ History

\* load_disabled_filters: cn = canonicalize_name(r.get("config_name")).
LoadName ==
    /\ canon.stage = "stored"
    /\ canon' = [canon EXCEPT !.stage = "loaded",
                              !.loaded = canonicalize_name(canon.stored)]
    /\ ev' = Event("load_name")
    /\ UNCHANGED <<local_users, agents, links, remote_used, now, pc, rows,
                   seen_owners, ops, bot_txn, inflight, attempts, aggr>>
    /\ History

NextCanon == StoreName \/ LoadName

SpecCanon == InitCanon /\ [][NextCanon]_vars

\* C25: canonicalize_name is idempotent: the canonical form of a canonical
\* form is that form, for every name.
C25_Idempotent ==
    canon.stage = "loaded" => canon.loaded = canon.stored

\* The lines of the response that are "# " comments.
CommentLines == {i \in 1..Len(aggr.lines) : "comment" \in DOMAIN aggr.lines[i]}

\* C26: when neither gate triggers, the merged list is empty and some
\* per-panel error was collected, the body is those errors, each as one
\* comment line, in the order collected, and not an empty body.
C26_ErrorsAsComments ==
    (aggr.stage = "done" /\ aggr.uniq = <<>> /\ aggr.errors # <<>>) =>
        /\ ev.aggregated
        /\ ev.body = "errors"
        /\ aggr.lines = [i \in 1..Len(aggr.errors) |-> [comment |-> aggr.errors[i]]]

\* Every fetch of the request failed.
C26_Witness ==
    /\ aggr.stage = "done"
    /\ aggr.uniq = <<>>
    /\ Len(aggr.errors) = 3
    /\ ev.body = "errors"
    /\ Len(aggr.lines) = 3

\* C27 as stated: when some fetch fails and another succeeds, the response
\* holds the links of those that succeeded and a comment line for the failure.
C27_LinksPlusDiagnostic ==
    (aggr.stage = "done" /\ aggr.uniq # <<>> /\ aggr.errors # <<>>) =>
        /\ \A i \in 1..Len(aggr.uniq) : aggr.lines[i] = aggr.uniq[i]
        /\ CommentLines # {}

\* C27: when some fetch fails and another succeeds, the response holds the
\* links of those that succeeded and nothing else: the errors collected are
\* not reported.
C27_PartialFailureLinksOnly ==
    (aggr.stage = "done" /\ aggr.uniq # <<>> /\ aggr.errors # <<>>) =>
        /\ ev.body = "links"
        /\ aggr.lines = aggr.uniq
        /\ CommentLines = {}

\* One identity of the multi-identity link failed, the other returned A.
C27_Witness ==
    /\ aggr.stage = "done"
    /\ aggr.resp[<<"p2", "x">>].err # ""
    /\ aggr.resp[<<"p2", "y">>].links = <<LinkA>>
    /\ aggr.errors # <<>>
    /\ aggr.lines = <<LinkA>>

\* ------------------------------- usage_sync.py: the loop and its exceptions
\* A faulty loop without the try block: the exception leaves `while True`.
LoopRaise_fatal ==
    /\ pc \in {"links", "agents"}
    /\ pc' = "dead"
    /\ rows' = <<>>
    /\ seen_owners' = {}
    /\ ev' = [Event("error") EXCEPT !.link = IF rows # <<>> THEN Head(rows).link_id
                                            ELSE 0]
    /\ UNCHANGED <<local_users, agents, links, remote_used, now, ops>>
    /\ UNCHANGED <<bot_txn, inflight, attempts, aggr, canon>>
    /\ History

\* An exception raised inside the try block while a row or the agent pass is
\* being processed (a database error of a cursor, such as the out-of-range
\* error of add_usage), before the failing statement has written anything:
\* `except Exception` logs it, the rest of the cycle is not run, the loop goes
\* to time.sleep(interval).
LoopRaise ==
    /\ pc \in {"links", "agents"}
    /\ pc' = "sleep"
    /\ rows' = <<>>
    /\ seen_owners' = {}
    /\ ev' = [Event("error") EXCEPT !.link = IF rows # <<>> THEN Head(rows).link_id
                                            ELSE 0]
    /\ UNCHANGED <<local_users, agents, links, remote_used, now, ops>>
    /\ UNCHANGED <<bot_txn, inflight, attempts, aggr, canon>>
    /\ History

\* The steps with which the loop's thread begins a cycle or abandons one.
LoopCycle == LoopStart \/ LoopRaise

NextLoop ==
    \/ LoopStart
    \/ LoopLink
    \/ LoopAgents
    \/ LoopRaise
    \/ Traffic

\* The loop's thread keeps running: time.sleep returns after the interval,
\* every remote call has a timeout and every database call returns or raises.
\* The thread has a step to take in every state and a cycle has finitely many
\* rows, so that the thread takes steps for ever exactly when it takes steps
\* of LoopCycle for ever: the fairness of the thread is stated on those.
SpecLoop == Init /\ [][NextLoop]_vars /\ WF_vars(LoopCycle)

\* C28: the loop never terminates on an error: whatever fetch failure or
\* exception a cycle meets, another cycle starts later, again and again.
C28_AlwaysAnotherCycle == []<>(ev.op = "fetch_all")

\* The loop caught an exception at link 2 and sleeps, with traffic of u1 not
\* yet credited.
C28_Witness ==
    /\ ev.op = "error"
    /\ ev.link = 2
    /\ pc = "sleep"
    /\ remote_used[<<"p2", "x">>] > links[2]

\* C29 as stated: whatever fails while a link is processed, the cycle goes on:
\* every step taken among the links polls the next link, and the cycle ends
\* with the agent pass.
C29_Stated_Step ==
    /\ pc = "links" => /\ ev'.op = "poll"
                       /\ ev'.link = Head(rows).link_id
                       /\ rows' = Tail(rows)
    /\ pc = "agents" => ev'.op = "agents"

C29_AnyFailureContinues == [][C29_Stated_Step]_vars

\* C29: a failed or timed-out remote call while a link is processed (the
\* fetch of its usage, a disable or enable call) does not stop the cycle: the
\* poll of a link, failed or not, is followed by the next link, or by the agent
\* pass after the last one; the agent pass runs only when no link is left; the
\* cycle ends before that only when an exception is raised.
C29_Step ==
    /\ ev'.op = "poll" => /\ ev'.link = Head(rows).link_id
                          /\ rows' = Tail(rows)
                          /\ pc' = IF Tail(rows) = <<>> THEN "agents" ELSE "links"
    /\ ev'.op = "agents" => pc = "agents" /\ rows = <<>>
    /\ (pc # "sleep" /\ pc' = "sleep") => ev'.op \in {"agents", "error"}

C29_RemoteFailureContinues == [][C29_Step]_vars

\* The fetch for link 1 failed, link 2 is the next to be polled.
C29_Witness ==
    /\ ev.op = "poll"
    /\ ev.link = 1
    /\ ev.used = -1
    /\ pc = "links"
    /\ rows # <<>>
    /\ Head(rows).link_id = 2

\* ------------------------- the pushed flag under concurrent writers
\* The poll loop, read requests split at their read of the flag, and an admin
\* changing a user's limit in between.
NextStale ==
    \/ NextGateRace
    \/ UpdateLimit

SpecStale == InitGateRace /\ [][NextStale]_vars

\* C30: the write that ends a disable decided by a read request changes
\* disabled_pushed only if the flag was not changed by another writer since
\* the request read it: a newer value is never overwritten by the stale
\* decision.
C30_Step ==
    \A r \in Requests :
       (/\ inflight.req[r] # ""
        /\ inflight'.req[r] = ""
        /\ FlagChanged(inflight.req[r]))
       => ~flag_moved.req[r]

C30_NoStaleOverwrite == [][C30_Step]_vars

\* ------------------------------------------- the order of the evaluations
\* C31: within one poll cycle every user-level evaluation comes before any
\* agent-level one, and the agent-level transition is evaluated exactly once
\* for each distinct owner touched in the cycle: a link's poll evaluates no
\* agent and runs while no agent has been evaluated in the cycle; the agent
\* pass runs when every row has been processed, evaluates each owner of a link
\* polled through to its user-level evaluation once and no other owner, and
\* ends the cycle.
C31_Step ==
    /\ ev'.op = "poll"
         => /\ ev'.owners = <<>>
            /\ \A o \in DOMAIN cycle.evals : cycle.evals[o] = 0
    /\ ev'.op = "agents"
         => /\ rows = <<>>
            /\ pc' = "sleep"
            /\ \A o \in DOMAIN cycle.evals :
                  cycle'.evals[o] = IF o \in cycle.touched THEN 1 ELSE 0

C31_UsersThenAgentsOnce == [][C31_Step]_vars

\* The agent pass of a cycle that polled both links of the owner through to
\* the user-level evaluation has evaluated the owner once.
C31_Witness ==
    /\ ev.op = "agents"
    /\ ev.owners = <<OWNER>>
    /\ cycle.touched = {OWNER}
    /\ cycle.evals[OWNER] = 1
    /\ OWNER \in DOMAIN agents
    /\ DOMAIN links = {1, 2}
    /\ links[1] > 0 /\ links[2] > 0

\* ------------------------------------------ the agent-level disable fan-out
\* The disable calls an agent-level OK -> PUSHED transition owes an account:
\* one for every link of an owned user that maps to it, and one more when its
\* panel is assigned to the agent and its identifier is an owned local username.
AgentDisableCalls(o, a) ==
    Cardinality({l \in DOMAIN links :
                    LinkDef(l).owner_id = o /\ a \in LinkAccounts(l)})
      + (IF a[1] \in list_agent_assigned_panels(o) /\ a[2] \in DOMAIN local_users
         THEN 1 ELSE 0)

\* C32: when the enforcer (the agent pass of a cycle, or the sync a quota change
\* triggers) takes an agent from OK to PUSHED, the step calls disable for every
\* link of every user the agent owns and, in addition, on every panel assigned
\* to the agent with each local username as remote identifier, and nowhere
\* else; afterwards disabled_pushed = 1 on the agent and on every owned user,
\* whether the calls succeeded or not.
C32_Step ==
    \A o \in DOMAIN agents :
       (/\ ev'.op \in {"agents", "set_agent_quota"}
        /\ agents[o].disabled_pushed = 0
        /\ agents'[o].disabled_pushed = 1)
         => /\ \A a \in Accounts : ev'.disable[a] = AgentDisableCalls(o, a)
            /\ \A u \in DOMAIN local_users : local_users'[u].disabled_pushed = 1
            /\ ev'.enable = NoCalls

C33_FailuresLoggedAsWarnings ==
    \A e \in ev.log : e.code # HTTP_OK => e.level = "warning"

\* What the enforcer's log does show: one line per call, the same line at the
\* same level whether the call succeeded or failed.
C33_EveryCallLoggedAsSuccess ==
    \A e \in ev.log : e.level = "info"

\* ---------------------------------------- the gate against the enforcer
\* The ledger with every disabled_pushed cleared: what the two decisions are
\* when the flag is left out of account.
Unflagged ==
    [World({}) EXCEPT
        !.lu = [u \in DOMAIN local_users |->
                   [local_users[u] EXCEPT !.disabled_pushed = 0]],
        !.ag = [o \in DOMAIN agents |-> [agents[o] EXCEPT !.disabled_pushed = 0]]]

\* The gate's decisions on a read of u: the agent-level block answers a plain
\* read with the empty body; the user-level block, reached by the HTML read
\* that the agent-level block lets through, pushes the user's disable.
GateBlocksAgent(u) ==
    unified_links(Unflagged, OWNER, u, FALSE, "links", now).body = ""
GateBlocksUser(u) ==
    unified_links(Unflagged, OWNER, u, TRUE, "links", now).w.lu[u].disabled_pushed = 1

\* The enforcer's decisions: the OK -> PUSHED transition fires.
EnforcerFiresAgent(o) ==
    /\ o \in DOMAIN agents
    /\ try_disable_agent_if_exceeded(Unflagged, o, now).ag[o].disabled_pushed = 1
EnforcerFiresUser(u) ==
    try_disable_if_user_exceeded(Unflagged, OWNER, u).lu[u].disabled_pushed = 1

\* C34: in every ledger state the gate and the enforcer decide alike: the
\* gate's agent-level predicate holds exactly when the enforcer's agent-level
\* OK -> PUSHED condition holds with the flag left out of account, and the
\* same at the user level; an inactive agent and an owner without an agent row
\* are blocked by neither.
C34_GateDecidesAsEnforcer ==
    \A u \in DOMAIN local_users :
       /\ GateBlocksAgent(u) <=> EnforcerFiresAgent(OWNER)
       /\ GateBlocksUser(u) <=> EnforcerFiresUser(u)
       /\ OWNER \notin DOMAIN agents => ~GateBlocksAgent(u)
       /\ (OWNER \in DOMAIN agents /\ agents[OWNER].active = 0) => ~GateBlocksAgent(u)

\* An inactive agent over its quota, which neither blocks, owning a user over
\* its own quota, which both block.
C34_Witness ==
    /\ OWNER \in DOMAIN agents
    /\ agents[OWNER].active = 0
    /\ AgentOverLimit(agents[OWNER])
    /\ ~GateBlocksAgent("u1")
    /\ ~EnforcerFiresAgent(OWNER)
    /\ "u1" \in DOMAIN local_users
    /\ GateBlocksUser("u1")
    /\ EnforcerFiresUser("u1")

\* --------------------------------- the two levels of the state machine
AgentHeld(o) ==
    /\ o \in DOMAIN agents
    /\ agents[o].disabled_pushed = 1
    /\ \/ SpecOverQuota(agents[o], agents[o].total_used_bytes)
       \/ SpecExpired(agents[o], now)

\* C35: while an agent is over quota or expired and has disabled_pushed = 1, no
\* step of a poll cycle issues an enable call to an account of a user it owns
\* or clears an owned user's disabled_pushed: the user-level PUSHED -> OK
\* transition does not undo the agent-level disable.
C35_Step ==
    (AgentHeld(OWNER) /\ ev'.op \in {"poll", "agents"})
      => /\ ev'.enable = NoCalls
         /\ \A u \in DOMAIN local_users :
               local_users[u].disabled_pushed = 1 => local_users'[u].disabled_pushed = 1

C35_AgentDisableNotUndone == [][C35_Step]_vars

\* C36: no step issues an enable call to a remote account of a user that is
\* over its own quota at that time, or clears such a user's disabled_pushed:
\* the agent-level PUSHED -> OK transition re-enables and unmarks only the
\* users that are individually not over quota.
C36_Step ==
    \A u \in DOMAIN local_users \cap DOMAIN local_users' :
       SpecOverQuota(local_users'[u], local_users'[u].used_bytes)
         => /\ \A a \in UserLinkAccounts(u) : ev'.enable[a] = 0
            /\ \A p \in Panels : ev'.enable[<<p, u>>] = 0
            /\ local_users[u].disabled_pushed = 1
                 => local_users'[u].disabled_pushed = 1

C36_OverQuotaUserStaysDisabled == [][C36_Step]_vars

\* ----------------------- usage_sync.py: the two writes of a credited poll
\* An interrupted credit is explored while the user's used_bytes is below:
MaxUsed == 3

\* add_usage and update_last each run in a transaction of their own (CurCtx
\* commits when its block is left).  The database fails, or the process is
\* stopped, after add_usage has committed and before update_last has: the
\* credit is stored, the baseline is not, the rest of the cycle is not run and
\* the loop (of this process or of the restarted one) sleeps.
LoopCreditRaise ==
    /\ pc = "links"
    /\ rows # <<>>
    /\ local_users[LinkDef(Head(rows).link_id).local_username].used_bytes < MaxUsed
    /\ LET row == Head(rows)
           d == LinkDef(row.link_id)
           used == fetch_used_traffic(row.link_id, {})
       IN /\ used - row.last_used_traffic > 0
          /\ Commit(add_usage(World({}), d.owner_id, d.local_username,
                              used - row.last_used_traffic),
                    [Event("error") EXCEPT !.link = row.link_id,
                                           !.user = d.local_username,
                                           !.used = used,
                                           !.last = row.last_used_traffic])
    /\ pc' = "sleep"
    /\ rows' = <<>>
    /\ seen_owners' = {}
    /\ UNCHANGED <<remote_used, now, ops>>
    /\ UNCHANGED <<bot_txn, inflight, attempts, aggr, canon>>
    /\ History

NextAbort ==
    \/ LoopStart
    \/ LoopLink
    \/ LoopAgents
    \/ LoopCreditRaise
    \/ Traffic

SpecAbort == Init /\ [][NextAbort]_vars

\* C37: every unit of growth of a link's remote counter is credited to
\* used_bytes at most once, also when add_usage commits and the baseline write
\* that follows does not: with counters that only grow and no reset, a user's
\* used_bytes never exceeds the traffic its remote accounts have reported.
C37_CreditedAtMostOnce ==
    \A u \in DOMAIN local_users :
       local_users[u].used_bytes <= SumOver(remote_used, UserLinkAccounts(u))

\* ------------------------------------ a user over quota awaiting its push
\* u1 was provisioned without a limit, used 2 units over its two links, both
\* polled and credited; the admin has then set its limit to UserLimit
\* (update_limit writes plan_limit_bytes and nothing else): u1 is over quota
\* with disabled_pushed = 0 and no cycle has run since.
InitOverdue ==
    /\ local_users = [u \in UserNames |->
                         IF u = "u1"
                         THEN [NewUser(UserLimit, 1) EXCEPT !.used_bytes = UserLimit]
                         ELSE NewUser(0, NULL)]
    /\ \/ agents = [o \in {} |-> NewAgent(0, NULL)]
       \/ agents = [o \in {OWNER} |->
                       [NewAgent(0, NULL) EXCEPT !.total_used_bytes = UserLimit]]
    /\ links = [l \in {1, 2} |-> 1]
    /\ remote_used = [a \in TrafficAccounts |->
                         IF a \in {<<"p1", "u1">>, <<"p2", "x">>} THEN 1 ELSE 0]
    /\ now = 1
    /\ pc = "sleep"
    /\ rows = <<>>
    /\ seen_owners = {}
    /\ ev = Event("init")
    /\ ops = 0
    /\ streak_used = [u \in UserNames |-> IF u = "u1" THEN UserLimit ELSE 0]
    /\ streak_last = [l \in LinkIds |-> IF l \in {1, 2} THEN 1 ELSE 0]
    /\ pushed_since = {}
    /\ agent_pushed_since = {}
    /\ bot_txn = NoTxn
    /\ inflight = NoneInFlight
    /\ attempts = NoCalls
    /\ cycle = NoCycle
    /\ aggr = NoAggr
    /\ canon = NoCanon
    /\ flag_moved = NotMoved

NextOverdue ==
    \/ LoopStart
    \/ LoopLink
    \/ LoopAgents
    \/ Traffic
    \/ PanelReset

SpecOverdue == InitOverdue /\ [][NextOverdue]_vars

\* C38: a user found over quota with disabled_pushed = 0 by a poll whose fetch
\* succeeded is PUSHED when the cycle ends, and its owner's agent-level
\* transition has been evaluated in the cycle, also when the poll showed no
\* delta or a counter below the baseline.
C38_PushedByEndOfCycle ==
    ev.op = "agents"
      => \A u \in cycle.owed \cap DOMAIN local_users :
            /\ local_users[u].disabled_pushed = 1
            /\ cycle.evals[OWNER] = 1

\* The same for the polls that reach the user-level evaluation: those whose
\* fetch succeeded with a counter not below the baseline.
C38_PushedWhenEvaluated ==
    ev.op = "agents"
      => \A u \in (cycle.owed \cap cycle.polled) \cap DOMAIN local_users :
            /\ local_users[u].disabled_pushed = 1
            /\ cycle.evals[OWNER] = 1

\* ------------------------------------------ the enforcer left to itself
\* Ledgers the program can be left with, with every baseline equal to what its
\* panel reports and the expiry of the agent reached or still ahead; limits,
\* expiries, counters, links and remote usage do not change afterwards.
InitSettle ==
    /\ \E lim \in {0, UserLimit}, used \in {0, UserLimit}, f1 \in {0, 1}, f2 \in {0, 1} :
         /\ local_users =
               [u \in UserNames |->
                   IF u = "u1"
                   THEN [NewUser(lim, NULL) EXCEPT !.used_bytes = used,
                                                   !.disabled_pushed = f1]
                   ELSE [NewUser(0, NULL) EXCEPT !.disabled_pushed = f2]]
         /\ \/ agents = [o \in {} |-> NewAgent(0, NULL)]
            \/ \E alim \in {0, AgentLimit}, exp \in {NULL, 1, 2}, act \in {0, 1},
                  fa \in {0, 1} :
                 agents = [o \in {OWNER} |->
                              [NewAgent(alim, exp) EXCEPT !.total_used_bytes = used,
                                                          !.active = act,
                                                          !.disabled_pushed = fa]]
    /\ links = [l \in {1, 2} |-> 0]
    /\ remote_used = [a \in TrafficAccounts |-> 0]
    /\ now = 1
    /\ pc = "sleep"
    /\ rows = <<>>
    /\ seen_owners = {}
    /\ ev = Event("init")
    /\ ops = 0
    /\ streak_used = [u \in UserNames |-> local_users[u].used_bytes]
    /\ streak_last = [l \in LinkIds |-> 0]
    /\ pushed_since = {}
    /\ agent_pushed_since = {}
    /\ bot_txn = NoTxn
    /\ inflight = NoneInFlight
    /\ attempts = NoCalls
    /\ cycle = [NoCycle EXCEPT !.settled = 0]
    /\ aggr = NoAggr
    /\ canon = NoCanon
    /\ flag_moved = NotMoved

NextSettle ==
    \/ LoopStart
    \/ LoopLink
    \/ LoopAgents

SpecSettle == InitSettle /\ [][NextSettle]_vars

\* The complete cycles after which the enforcer is claimed to be at rest.
SettleCycles == 2

\* C39: once limits, expiries, counters, links and remote usage have stopped
\* changing, the enforcer comes to rest after a bounded number of poll cycles:
\* after SettleCycles complete cycles no step issues a disable or enable call
\* or changes a flag, so the user-level and the agent-level transitions do not
\* keep undoing each other.
C39_Step ==
    cycle.settled >= SettleCycles
      => /\ ev'.disable = NoCalls
         /\ ev'.enable = NoCalls
         /\ local_users' = local_users
         /\ agents' = agents

C39_ReachesFixedPoint == [][C39_Step]_vars

\* The enforcer at rest after two complete cycles that both acted: the agent,
\* over quota or expired, is PUSHED, and a user it owns that the agent-level
\* disable had flagged has been re-enabled by the user-level transition.
C39_Witness ==
    /\ cycle.settled >= SettleCycles
    /\ ev.op = "agents"
    /\ AgentHeld(OWNER)
    /\ \E u \in DOMAIN local_users : local_users[u].disabled_pushed = 0

\* C40: within one poll cycle each remote account receives at most one disable
\* call and at most one enable call, also when a user-level and an agent-level
\* transition fire in the same cycle and when a linked panel is also a panel
\* assigned to the agent with the remote username equal to the local one: the
\* disable calls of the cycle's polls and of its agent pass together are at
\* most one per account, and no step of the cycle issues two enable calls to
\* one account.
C40_AtMostOneCallPerCycle ==
    \A a \in Accounts :
       /\ cycle.poll[a] + cycle.agents[a] <= 1
       /\ ev.op \in {"poll", "agents"} => ev.enable[a] <= 1

====
